---- MODULE Spec2Model ----
(***************************************************************************)
(* Model of the DAPR configuration analysers of this repository:           *)
(*   scripts/dependency-analyzer.py  (DependencyAnalyzer, main)            *)
(*   scripts/validate-config.py      (validate_component, main)            *)
(*   tests/validators.py             (the cross-file validator functions)  *)
(* A project is a list of decoded YAML component documents in discovery    *)
(* order plus the decoded apps list of dapr.yaml.  One behaviour is one    *)
(* run of one of the three entry points on one project.                    *)
(***************************************************************************)
EXTENDS Integers, Sequences, FiniteSets, TLC

\* ------------------------------------------------------------------ bounds
\* Largest size of a project: component-candidate files plus entries of the
\* apps list of dapr.yaml.
MaxArtifacts == 3

\* ------------------------------------------------------- sequence helpers
Range(s) == {s[i] : i \in 1..Len(s)}

Front(s) == SubSeq(s, 1, Len(s) - 1)

\* list.index(x): position of the first occurrence (x must occur).
IndexOf(s, x) == CHOOSE i \in 1..Len(s) : s[i] = x /\ \A j \in 1..(i - 1) : s[j] # x

\* Every sequence that enumerates the finite set S once: the iteration
\* orders a Python set (or a directory listing) of these members can have.
Orders(S) == {o \in [1..Cardinality(S) -> S] : Range(o) = S}

\* The members of S in the order ord lists them.
Iterate(S, ord) == SelectSeq(ord, LAMBDA x : x \in S)

SeqsUpTo(S, n) == UNION {[1..k -> S] : k \in 0..n}

RECURSIVE Flatten(_)
Flatten(ss) == IF ss = <<>> THEN <<>> ELSE Head(ss) \o Flatten(Tail(ss))

\* ------------------------------------------------------------ YAML inputs
NoRef == "<none>"

\* One entry of spec.metadata: secretKeyRef is NoRef when the key is absent,
\* otherwise the secretKeyRef.name string.
Entry(n, v, r) == [name |-> n, value |-> v, secretKeyRef |-> r]

RefEntry(r) == Entry("password", "", r)

RECURSIVE RefEntries(_)
RefEntries(rs) == IF rs = <<>> THEN <<>> ELSE <<RefEntry(Head(rs))>> \o RefEntries(Tail(rs))

\* A component-candidate file and its decoded document.  dir is the
\* directory the file is in, yaml_ok = FALSE is a file on which
\* yaml.safe_load raises YAMLError, scopes is the top-level key, mscopes is
\* metadata.scopes, auth is auth.secretStore ("" when absent).
Doc(k, n, t, rs, au, ms, sc) ==
    [dir |-> "components", yaml_ok |-> TRUE, apiVersion |-> "dapr.io/v1alpha1", kind |-> k,
     name |-> n, type |-> t, version |-> "v1", metadata |-> RefEntries(rs),
     auth |-> au, mscopes |-> ms, scopes |-> sc]

SS == "secretstores.kubernetes"
ST == "state.postgresql"

\* Documents whose references shape the dependency graph.
GraphDocs ==
    {Doc("Component", "a", SS, rs, "", <<>>, <<>>) : rs \in {<<>>, <<"b">>}}
    \cup {Doc("Component", "b", SS, rs, "", <<>>, <<>>) : rs \in {<<"a">>, <<"a", "c">>}}
    \cup {Doc("Component", "c", ST, rs, "", <<>>, <<>>) : rs \in {<<>>, <<"a">>, <<"m">>}}
    \cup {Doc("Component", "a", ST, <<>>, "", <<>>, <<>>),
          Doc("Component", "b", ST, <<"a/k">>, "", <<>>, <<>>),
          Doc("Component", "c", SS, <<"a">>, "", <<>>, <<>>),
          Doc("Component", "c", ST, <<>>, "a", <<>>, <<>>)}

\* Documents that carry scopes (in metadata, or as the top-level key).
ScopeDocs ==
    {Doc("Component", "a", ST, <<>>, "", ms, <<>>) :
        ms \in {<<"app1">>, <<"ghost", "ghost">>, <<"app1", "ghost">>}}
    \cup {Doc("Component", "a", ST, <<>>, "", <<>>, <<"ghost">>)}

\* Documents the loaders reject or complain about: another kind, no name,
\* a YAML syntax error, another apiVersion, no kind key (kind "").
OddDocs ==
    {Doc("Configuration", "a", ST, <<>>, "", <<>>, <<>>),
     Doc("Component", "", ST, <<>>, "", <<>>, <<>>),
     [Doc("Component", "a", ST, <<>>, "", <<>>, <<>>) EXCEPT !.yaml_ok = FALSE],
     [Doc("Component", "b", ST, <<>>, "", <<>>, <<>>) EXCEPT !.apiVersion = "v1"],
     Doc("", "b", ST, <<>>, "", <<>>, <<>>)}

\* Files below the top level of components/, and outside it.
LocatedDocs ==
    {[Doc("Component", "b", ST, <<>>, "", <<>>, <<>>) EXCEPT !.dir = dr] :
        dr \in {"components/sub", "middleware"}}

Docs == GraphDocs \cup ScopeDocs \cup OddDocs \cup LocatedDocs

\* The projects of overlapping cycles: four secret stores that reference one
\* another, a and b in a 2-cycle, a, c and d in a 3-cycle.
OverlapFiles == 4

OverlapDocs ==
    {Doc("Component", "a", SS, rs, "", <<>>, <<>>) : rs \in {<<"b", "c">>, <<"c", "b">>}}
    \cup {Doc("Component", "b", SS, <<"a">>, "", <<>>, <<>>),
          Doc("Component", "c", SS, <<"d">>, "", <<>>, <<>>),
          Doc("Component", "d", SS, <<"a">>, "", <<>>, <<>>)}

\* One entry of the apps list.  appId "" is an entry with neither appId nor
\* appID; appDirPath "" is an absent key.
AppCfg(id, port, dir) == [appId |-> id, appPort |-> port, appDirPath |-> dir]

AppCfgs ==
    {AppCfg("app1", 8001, ""), AppCfg("app1", 8002, "svc1"),
     AppCfg("app2", 8001, "svc2"), AppCfg("", 8003, "")}

\* The file system under the configuration root: the names the invoke(...)
\* regex finds in the *.py, *.js and *.ts files of an existing directory.
DirExists(dir) == dir \in {"svc1", "svc2"}

InvokedIn(dir) ==
    IF dir = "svc1" THEN {"app2", "x", "y"} ELSE IF dir = "svc2" THEN {"app1"} ELSE {}

\* The projects: every list of documents and every apps list within the size.
Projects ==
    UNION {[1..k -> Docs] \X SeqsUpTo(AppCfgs, MaxArtifacts - k) : k \in 0..MaxArtifacts}

\* ---------------------------------------------------------------- Python
\* A dict: keys in insertion order, and the value of each key.
EmptyDict == [keys |-> <<>>, val |-> <<>>]

Has(d, k) == k \in Range(d.keys)

\* d[k] = v : a new key goes last, an existing key keeps its position.
DictSet(d, k, v) ==
    IF Has(d, k)
    THEN [d EXCEPT !.val = [x \in Range(d.keys) |-> IF x = k THEN v ELSE d.val[x]]]
    ELSE [keys |-> Append(d.keys, k),
          val |-> [x \in Range(d.keys) \cup {k} |-> IF x = k THEN v ELSE d.val[x]]]

\* ------------------------------------------------------------------ state
VARIABLES
    files,       \* the component-candidate documents, in discovery order
    manifest,    \* the apps list of dapr.yaml
    program,     \* which entry point runs: "" before the run starts
    pc,          \* the step the run is at
    idx,         \* index of the next file to load
    args,        \* the command-line flags [strict, warnings_as_errors]
    components,  \* DependencyAnalyzer.components
    apps,        \* DependencyAnalyzer.apps
    graph,       \* DependencyAnalyzer.graph: [nodes, edges, reverse_edges]
    issues,      \* DependencyAnalyzer.issues
    warnings,    \* DependencyAnalyzer.warnings
    results,     \* what the entry point returned or collected
    uncaught,    \* the exception that left the top frame, "" if none
    exit_code    \* the process exit status, -1 while it runs

vars == <<files, manifest, program, pc, idx, args, components, apps, graph,
          issues, warnings, results, uncaught, exit_code>>

NoArgs == [strict |-> FALSE, warnings_as_errors |-> FALSE]

Start ==
    /\ program = ""
    /\ pc = "start"
    /\ idx = 1
    /\ args = NoArgs
    /\ components = EmptyDict
    /\ apps = EmptyDict
    /\ graph = [nodes |-> EmptyDict, edges |-> <<>>, reverse_edges |-> <<>>]
    /\ issues = <<>>
    /\ warnings = <<>>
    /\ results = <<>>
    /\ uncaught = ""
    /\ exit_code = -1

Init ==
    /\ \E p \in Projects : files = p[1] /\ manifest = p[2]
    /\ Start

InitOverlap ==
    /\ files \in [1..OverlapFiles -> OverlapDocs]
    /\ manifest = <<>>
    /\ Start

\* ------------------------------------------- dependency-analyzer: loading
\* A finding of the analyzer: what holds the cycle, scope, secrets or file.
Finding(t, sev, c, w) == [type |-> t, severity |-> sev, component |-> c, what |-> w]

\* secret_refs: the secretKeyRef.name of every entry that has a secretKeyRef.
SecretRefsOf(md) ==
    LET withRef == SelectSeq(md, LAMBDA e : e.secretKeyRef # NoRef)
    IN [i \in 1..Len(withRef) |-> withRef[i].secretKeyRef]

Component(d, path) ==
    [name |-> d.name, component_type |-> d.type, version |-> d.version,
     file_path |-> path, scopes |-> d.mscopes, secret_refs |-> SecretRefsOf(d.metadata),
     depends_on |-> <<>>]

\* DependencyGraph.add_node
add_node(g, c) == [g EXCEPT !.nodes = DictSet(g.nodes, c.name, c)]

\* The positions in `files` of the files a glob of directory dr yields.
FilesIn(fs, dr) == SelectSeq([i \in 1..Len(fs) |-> i], LAMBDA i : fs[i].dir = dr)

\* _load_components: components/, middleware/ and bindings/ in turn, each
\* searched recursively, the files of a directory before its subdirectories.
LoadOrder(fs) ==
    FilesIn(fs, "components") \o FilesIn(fs, "components/sub") \o FilesIn(fs, "middleware")
    \o FilesIn(fs, "bindings")

StartAnalyzer ==
    /\ pc = "start"
    /\ program' = "dependency-analyzer"
    /\ pc' = "load_components"
    /\ UNCHANGED <<files, manifest, idx, args, components, apps, graph, issues,
                   warnings, results, uncaught, exit_code>>

\* _parse_component_file, on the file at position path of `files`:
\* w holds self.components, self.graph and self.warnings.
parse_component_file(w, path, d) ==
    IF ~d.yaml_ok
    THEN [w EXCEPT !.warnings = Append(@, Finding("parse_error", "", "", <<path>>))]
    ELSE IF d.kind # "Component" \/ d.name = ""
    THEN w
    ELSE [w EXCEPT !.components = DictSet(@, d.name, Component(d, path)),
                   !.graph = add_node(@, Component(d, path))]

\* One turn of the loops of _load_components.
ParseComponentFile ==
    /\ program = "dependency-analyzer"
    /\ pc = "load_components"
    /\ idx <= Len(LoadOrder(files))
    /\ LET path == LoadOrder(files)[idx]
           w == parse_component_file(
                    [components |-> components, graph |-> graph, warnings |-> warnings],
                    path, files[path])
       IN /\ components' = w.components
          /\ graph' = w.graph
          /\ warnings' = w.warnings
    /\ idx' = idx + 1
    /\ UNCHANGED <<files, manifest, program, pc, args, apps, issues, results,
                   uncaught, exit_code>>

App(a) == [app_id |-> a.appId, app_port |-> a.appPort, app_dir |-> a.appDirPath]

RECURSIVE LoadAppsFrom(_, _)
LoadAppsFrom(m, d) ==
    IF m = <<>> THEN d
    ELSE IF Head(m).appId = "" THEN LoadAppsFrom(Tail(m), d)
    ELSE LoadAppsFrom(Tail(m), DictSet(d, Head(m).appId, App(Head(m))))

\* _load_apps, once every component file is parsed.
LoadApps ==
    /\ program = "dependency-analyzer"
    /\ pc = "load_components"
    /\ idx > Len(LoadOrder(files))
    /\ apps' = LoadAppsFrom(manifest, apps)
    /\ pc' = "build"
    /\ UNCHANGED <<files, manifest, program, idx, args, components, graph, issues,
                   warnings, results, uncaught, exit_code>>

\* ------------------------------------- dependency-analyzer: the graph
\* "secretstores" in comp.component_type.lower(), on the driver tags used.
IsSecretStoreType(t) == t \in {SS}

\* DependencyGraph.get_dependencies / get_dependents: dict.get with a default.
get_dependencies(g, n) == IF n \in DOMAIN g.edges THEN g.edges[n] ELSE {}

get_dependents(g, n) == IF n \in DOMAIN g.reverse_edges THEN g.reverse_edges[n] ELSE {}

\* defaultdict(set)[k].add(x)
SetAdd(m, k, x) ==
    [y \in DOMAIN m \cup {k} |-> IF y = k THEN (IF k \in DOMAIN m THEN m[k] ELSE {}) \cup {x}
                                 ELSE m[y]]

\* DependencyGraph.add_edge
add_edge(g, from, to) ==
    [g EXCEPT !.edges = SetAdd(g.edges, from, to),
              !.reverse_edges = SetAdd(g.reverse_edges, to, from)]

\* The state _build_dependency_graph works on: the graph and the Component
\* objects (shared by self.components and graph.nodes).
\* for store_name in secret_stores: add_edge; depends_on.append
RECURSIVE LinkStores(_, _, _)
LinkStores(w, name, stores) ==
    IF stores = <<>> THEN w
    ELSE LinkStores(
            [g |-> add_edge(w.g, name, Head(stores)),
             objs |-> [w.objs EXCEPT ![name].depends_on = Append(@, Head(stores))]],
            name, Tail(stores))

\* for secret_ref in comp.secret_refs
RECURSIVE LinkRefs(_, _, _, _)
LinkRefs(w, name, refs, stores) ==
    IF refs = <<>> THEN w
    ELSE LinkRefs(LinkStores(w, name, stores), name, Tail(refs), stores)

\* for name, comp in self.components.items()
RECURSIVE LinkComponents(_, _, _)
LinkComponents(w, names, stores) ==
    IF names = <<>> THEN w
    ELSE LinkComponents(LinkRefs(w, Head(names), w.objs[Head(names)].secret_refs, stores),
                        Tail(names), stores)

\* The names of the secret stores, in dict order.
SecretStoreNames(cs) ==
    SelectSeq(cs.keys, LAMBDA n : IsSecretStoreType(cs.val[n].component_type))

BuildGraph(g, cs) ==
    LinkComponents([g |-> g, objs |-> cs.val], cs.keys, SecretStoreNames(cs))

\* _build_dependency_graph
BuildDependencyGraph ==
    /\ program = "dependency-analyzer"
    /\ pc = "build"
    /\ LET w == BuildGraph(graph, components) IN
        /\ components' = [components EXCEPT !.val = w.objs]
        /\ graph' = [w.g EXCEPT !.nodes = [@ EXCEPT !.val = w.objs]]
    /\ pc' = "cycles"
    /\ UNCHANGED <<files, manifest, program, idx, args, apps, issues, warnings,
                   results, uncaught, exit_code>>

\* ---------------------------- dependency-analyzer: circular dependencies
\* The variables the nested dfs closes over, its path argument (one list
\* object per start node), whether ValueError was raised, and its return.
DfsState == [visited |-> {}, rec_stack |-> {}, path |-> <<>>, cycles |-> <<>>,
             raised |-> FALSE, ret |-> FALSE]

RECURSIVE dfs(_, _, _, _)
RECURSIVE dfs_neighbors(_, _, _, _, _)

\* dfs(node, path); ord gives the iteration order of the dependency sets.
dfs(g, ord, node, st) ==
    dfs_neighbors(g, ord, node, Iterate(get_dependencies(g, node), ord),
                  [st EXCEPT !.visited = @ \cup {node}, !.rec_stack = @ \cup {node},
                             !.path = Append(@, node)])

\* for neighbor in self.graph.get_dependencies(node), then the pop.
dfs_neighbors(g, ord, node, nbrs, st) ==
    IF nbrs = <<>>
    THEN [st EXCEPT !.path = Front(@), !.rec_stack = @ \ {node}, !.ret = FALSE]
    ELSE LET neighbor == Head(nbrs) IN
        IF neighbor \notin st.visited
        THEN LET r == dfs(g, ord, neighbor, st) IN
                IF r.raised \/ r.ret THEN r
                ELSE dfs_neighbors(g, ord, node, Tail(nbrs), r)
        ELSE IF neighbor \in st.rec_stack
        THEN IF neighbor \notin Range(st.path)
             THEN [st EXCEPT !.raised = TRUE]
             ELSE [st EXCEPT
                     !.cycles = Append(@, SubSeq(st.path, IndexOf(st.path, neighbor),
                                                 Len(st.path)) \o <<neighbor>>),
                     !.ret = TRUE]
        ELSE dfs_neighbors(g, ord, node, Tail(nbrs), st)

\* for node in self.graph.nodes: if node not in visited: dfs(node, [])
RECURSIVE dfs_from_each(_, _, _, _)
dfs_from_each(g, ord, nodes, st) ==
    IF nodes = <<>> \/ st.raised THEN st
    ELSE IF Head(nodes) \in st.visited THEN dfs_from_each(g, ord, Tail(nodes), st)
    ELSE dfs_from_each(g, ord, Tail(nodes),
                       dfs(g, ord, Head(nodes), [st EXCEPT !.path = <<>>]))

\* The cycles list (and whether path.index raised) for one iteration order.
DetectCycles(g, ord) == dfs_from_each(g, ord, g.nodes.keys, DfsState)

CycleFindings(cycles) ==
    [i \in 1..Len(cycles) |-> Finding("circular_dependency", "error", "", cycles[i])]

\* The names that occur in some dependency set.
Targets(g) == UNION {g.edges[n] : n \in DOMAIN g.edges}

\* _detect_circular_dependencies.  An exception leaves analyze and main.
DetectCircularDependencies ==
    /\ program = "dependency-analyzer"
    /\ pc = "cycles"
    /\ \E ord \in Orders(Targets(graph)) :
        LET d == DetectCycles(graph, ord) IN
            IF d.raised
            THEN /\ uncaught' = "ValueError"
                 /\ pc' = "traceback"
                 /\ UNCHANGED issues
            ELSE /\ issues' = issues \o CycleFindings(d.cycles)
                 /\ pc' = "secrets"
                 /\ UNCHANGED uncaught
    /\ UNCHANGED <<files, manifest, program, idx, args, components, apps, graph,
                   warnings, results, exit_code>>

\* ------------------------------------- dependency-analyzer: the rules
RECURSIVE SecretRefFindings(_, _, _)
\* The loop of _validate_secret_references: w holds issues and warnings.
SecretRefFindings(cs, names, w) ==
    IF names = <<>> THEN w
    ELSE LET name == Head(names)
             comp == cs.val[name]
             secret_stores == Range(SecretStoreNames(cs))
         IN IF IsSecretStoreType(comp.component_type)
            THEN SecretRefFindings(cs, Tail(names), w)
            ELSE IF comp.secret_refs # <<>> /\ secret_stores = {}
            THEN SecretRefFindings(cs, Tail(names),
                    [w EXCEPT !.issues =
                        Append(@, Finding("missing_secret_store", "error", name, <<>>))])
            ELSE IF comp.secret_refs # <<>>
            THEN SecretRefFindings(cs, Tail(names),
                    [w EXCEPT !.warnings =
                        Append(@, Finding("secret_ref_check", "", name, comp.secret_refs))])
            ELSE SecretRefFindings(cs, Tail(names), w)

\* _validate_secret_references
ValidateSecretReferences ==
    /\ program = "dependency-analyzer"
    /\ pc = "secrets"
    /\ LET w == SecretRefFindings(components, components.keys,
                                  [issues |-> issues, warnings |-> warnings]) IN
        /\ issues' = w.issues
        /\ warnings' = w.warnings
    /\ pc' = "scopes"
    /\ UNCHANGED <<files, manifest, program, idx, args, components, apps, graph,
                   results, uncaught, exit_code>>

\* for scope in comp.scopes
RECURSIVE ScopeWarnings(_, _, _)
ScopeWarnings(as, name, scopes) ==
    IF scopes = <<>> THEN <<>>
    ELSE (IF as.keys # <<>> /\ ~Has(as, Head(scopes))
          THEN <<Finding("unknown_scope", "", name, <<Head(scopes)>>)>>
          ELSE <<>>) \o ScopeWarnings(as, name, Tail(scopes))

\* for name, comp in self.components.items()
ScopeFindings(cs, as) ==
    Flatten([i \in 1..Len(cs.keys) |->
                ScopeWarnings(as, cs.keys[i], cs.val[cs.keys[i]].scopes)])

\* _validate_scope_references
ValidateScopeReferences ==
    /\ program = "dependency-analyzer"
    /\ pc = "scopes"
    /\ warnings' = warnings \o ScopeFindings(components, apps)
    /\ pc' = "services"
    /\ UNCHANGED <<files, manifest, program, idx, args, components, apps, graph,
                   issues, results, uncaught, exit_code>>

\* for service_id in invoked_services
RECURSIVE ServiceWarnings(_, _, _)
ServiceWarnings(as, app_id, invoked) ==
    IF invoked = <<>> THEN <<>>
    ELSE (IF ~Has(as, Head(invoked)) /\ Head(invoked) # app_id
          THEN <<Finding("unknown_service", "", app_id, <<Head(invoked)>>)>>
          ELSE <<>>) \o ServiceWarnings(as, app_id, Tail(invoked))

\* for app_id, app in self.apps.items(); ord orders the invoked_services sets.
ServiceFindings(as, ord) ==
    Flatten([i \in 1..Len(as.keys) |->
                LET app == as.val[as.keys[i]] IN
                    IF app.app_dir = "" \/ ~DirExists(app.app_dir) THEN <<>>
                    ELSE ServiceWarnings(as, as.keys[i],
                                         Iterate(InvokedIn(app.app_dir), ord))])

AllInvoked(as) == UNION {InvokedIn(as.val[k].app_dir) : k \in Range(as.keys)}

\* _validate_service_dependencies
ValidateServiceDependencies ==
    /\ program = "dependency-analyzer"
    /\ pc = "services"
    /\ \E ord \in Orders(AllInvoked(apps)) :
        warnings' = warnings \o ServiceFindings(apps, ord)
    /\ pc' = "chains"
    /\ UNCHANGED <<files, manifest, program, idx, args, components, apps, graph,
                   issues, results, uncaught, exit_code>>

Max(S) == CHOOSE x \in S : \A y \in S : y <= x

\* get_chain_depth(node, visited)
RECURSIVE get_chain_depth(_, _, _)
get_chain_depth(g, node, visited) ==
    IF node \in visited THEN 0
    ELSE LET deps == get_dependencies(g, node) IN
        IF deps = {} THEN 1
        ELSE 1 + Max({get_chain_depth(g, dep, visited \cup {node}) : dep \in deps})

\* The depth above which a chain is reported.
MaxChainDepth == 3

ChainFindings(g) ==
    Flatten([i \in 1..Len(g.nodes.keys) |->
                LET depth == get_chain_depth(g, g.nodes.keys[i], {}) IN
                    IF depth > MaxChainDepth
                    THEN <<Finding("deep_dependency_chain", "", g.nodes.keys[i], <<depth>>)>>
                    ELSE <<>>])

\* _analyze_component_chains
AnalyzeComponentChains ==
    /\ program = "dependency-analyzer"
    /\ pc = "chains"
    /\ warnings' = warnings \o ChainFindings(graph)
    /\ pc' = "summary"
    /\ UNCHANGED <<files, manifest, program, idx, args, components, apps, graph,
                   issues, results, uncaught, exit_code>>

\* ------------------------------ dependency-analyzer: summary and exit
connection_count(g, name) ==
    Cardinality(get_dependencies(g, name)) + Cardinality(get_dependents(g, name))

\* sorted(..., key=count, reverse=True): a stable sort, larger counts first.
RECURSIVE InsertByCount(_, _, _)
InsertByCount(g, sorted, name) ==
    IF sorted = <<>> THEN <<name>>
    ELSE IF connection_count(g, Head(sorted)) >= connection_count(g, name)
    THEN <<Head(sorted)>> \o InsertByCount(g, Tail(sorted), name)
    ELSE <<name>> \o sorted

RECURSIVE SortByCount(_, _, _)
SortByCount(g, names, sorted) ==
    IF names = <<>> THEN sorted
    ELSE SortByCount(g, Tail(names), InsertByCount(g, sorted, Head(names)))

\* How many entries most_connected keeps.
MostConnectedShown == 5

\* _get_graph_summary
get_graph_summary(g) ==
    LET byCount == SortByCount(g, g.nodes.keys, <<>>) IN
    [total_nodes |-> Len(g.nodes.keys),
     total_edges |-> Cardinality({e \in (DOMAIN g.edges) \X Targets(g) : e[2] \in g.edges[e[1]]}),
     most_connected |-> SubSeq(byCount, 1, IF Len(byCount) < MostConnectedShown
                                           THEN Len(byCount) ELSE MostConnectedShown),
     isolated_components |-> SelectSeq(g.nodes.keys, LAMBDA n : connection_count(g, n) = 0)]

\* The return of analyze.
ReturnResults ==
    /\ program = "dependency-analyzer"
    /\ pc = "summary"
    /\ results' = [components |-> Len(components.keys), apps |-> Len(apps.keys),
                   issues |-> issues, warnings |-> warnings,
                   graph_summary |-> get_graph_summary(graph)]
    /\ pc' = "exit"
    /\ UNCHANGED <<files, manifest, program, idx, args, components, apps, graph,
                   issues, warnings, uncaught, exit_code>>

\* The exit code main passes to sys.exit.
ExitCode(a, res) ==
    IF a.strict /\ (res.issues # <<>> \/ (a.warnings_as_errors /\ res.warnings # <<>>))
    THEN 1 ELSE 0

\* The end of main.  The flags are read here for the first time.
AnalyzerExit ==
    /\ program = "dependency-analyzer"
    /\ pc = "exit"
    /\ \E s \in BOOLEAN, w \in BOOLEAN :
        /\ args' = [strict |-> s, warnings_as_errors |-> w]
        /\ exit_code' = ExitCode(args', results)
    /\ pc' = "exited"
    /\ UNCHANGED <<files, manifest, program, idx, components, apps, graph, issues,
                   warnings, results, uncaught>>

\* An exception that analyze did not catch leaves main: the interpreter
\* prints the traceback and ends the process with status 1, whatever the
\* flags were.
AnalyzerTraceback ==
    /\ program = "dependency-analyzer"
    /\ pc = "traceback"
    /\ \E s \in BOOLEAN, w \in BOOLEAN : args' = [strict |-> s, warnings_as_errors |-> w]
    /\ exit_code' = 1
    /\ pc' = "exited"
    /\ UNCHANGED <<files, manifest, program, idx, components, apps, graph, issues,
                   warnings, results, uncaught>>

\* ------------------------------------------------ tests/validators.py
\* The decoded documents the validator functions are handed as `components`.
Decoded(fs) == SelectSeq(fs, LAMBDA d : d.yaml_ok)

\* ref_name.split("/")[0] if "/" in ref_name else ref_name, on the names used.
StoreNameOf(ref_name) == IF ref_name = "a/k" THEN "a" ELSE ref_name

\* type.startswith("secretstores."), on the driver tags used.
StartsWithSecretstores(t) == t \in {SS}

ComponentNames(comps) == {comps[i].name : i \in 1..Len(comps)} \ {""}

\* The secretKeyRef entries of one component that become graph edges.
RECURSIVE RefDependencies(_, _, _)
RefDependencies(md, name, component_names) ==
    IF md = <<>> THEN <<>>
    ELSE (IF Head(md).secretKeyRef # NoRef
             /\ StoreNameOf(Head(md).secretKeyRef) \in component_names
             /\ StoreNameOf(Head(md).secretKeyRef) # name
          THEN <<StoreNameOf(Head(md).secretKeyRef)>> ELSE <<>>)
         \o RefDependencies(Tail(md), name, component_names)

AuthDependency(d, component_names) ==
    IF d.auth # "" /\ d.auth \in component_names /\ d.auth # d.name
    THEN <<d.auth>> ELSE <<>>

\* graph: Dict[str, List[str]], built by the loop over components.
RECURSIVE DependencyLists(_, _, _)
DependencyLists(comps, component_names, gr) ==
    IF comps = <<>> THEN gr
    ELSE IF Head(comps).name = "" THEN DependencyLists(Tail(comps), component_names, gr)
    ELSE DependencyLists(Tail(comps), component_names,
            DictSet(gr, Head(comps).name,
                    RefDependencies(Head(comps).metadata, Head(comps).name, component_names)
                    \o AuthDependency(Head(comps), component_names)))

\* visited, rec_stack and path are shared by every call of the nested dfs;
\* result is its return value, <<>> for None.
VDfsState == [visited |-> {}, rec_stack |-> {}, path |-> <<>>, result |-> <<>>]

RECURSIVE v_dfs(_, _, _)
RECURSIVE v_dfs_neighbors(_, _, _, _)

v_dfs(gr, node, st) ==
    v_dfs_neighbors(gr, node, IF Has(gr, node) THEN gr.val[node] ELSE <<>>,
                    [st EXCEPT !.visited = @ \cup {node}, !.rec_stack = @ \cup {node},
                               !.path = Append(@, node)])

v_dfs_neighbors(gr, node, nbrs, st) ==
    IF nbrs = <<>>
    THEN [st EXCEPT !.path = Front(@), !.rec_stack = @ \ {node}, !.result = <<>>]
    ELSE LET neighbor == Head(nbrs) IN
        IF neighbor \notin st.visited
        THEN LET r == v_dfs(gr, neighbor, st) IN
                IF r.result # <<>> THEN r
                ELSE v_dfs_neighbors(gr, node, Tail(nbrs), r)
        ELSE IF neighbor \in st.rec_stack
        THEN [st EXCEPT !.result = SubSeq(st.path, IndexOf(st.path, neighbor),
                                          Len(st.path)) \o <<neighbor>>]
        ELSE v_dfs_neighbors(gr, node, Tail(nbrs), st)

\* for node in graph: if node not in visited: cycle = dfs(node)
RECURSIVE v_dfs_from_each(_, _, _, _)
v_dfs_from_each(gr, nodes, st, found) ==
    IF nodes = <<>> THEN found
    ELSE IF Head(nodes) \in st.visited THEN v_dfs_from_each(gr, Tail(nodes), st, found)
    ELSE LET r == v_dfs(gr, Head(nodes), st) IN
        v_dfs_from_each(gr, Tail(nodes), r,
                        IF r.result # <<>> THEN Append(found, r.result) ELSE found)

\* detect_circular_dependencies: the cycle of each message, in order.
detect_circular_dependencies(comps) ==
    LET gr == DependencyLists(comps, ComponentNames(comps), EmptyDict)
    IN v_dfs_from_each(gr, gr.keys, VDfsState, <<>>)

VName(d) == IF d.name = "" THEN "unknown" ELSE d.name

SecretStoreNameSet(comps) ==
    {comps[i].name : i \in {j \in 1..Len(comps) : StartsWithSecretstores(comps[j].type)}} \ {""}

RefIssue(c, store, fld) == [component |-> c, store |-> store, field |-> fld]

\* for meta in spec.metadata: if "secretKeyRef" in meta
RECURSIVE EntryIssues(_, _, _)
EntryIssues(md, comp_name, store_names) ==
    IF md = <<>> THEN <<>>
    ELSE (IF Head(md).secretKeyRef # NoRef /\ Head(md).secretKeyRef # ""
             /\ Head(md).secretKeyRef \notin store_names
          THEN <<RefIssue(comp_name, Head(md).secretKeyRef, Head(md).name)>> ELSE <<>>)
         \o EntryIssues(Tail(md), comp_name, store_names)

\* validate_secret_references with secret_stores = None
validate_secret_references(comps) ==
    LET store_names == SecretStoreNameSet(comps) IN
    Flatten([i \in 1..Len(comps) |->
        EntryIssues(comps[i].metadata, VName(comps[i]), store_names)
        \o (IF comps[i].auth # "" /\ comps[i].auth \notin store_names
            THEN <<RefIssue(VName(comps[i]), comps[i].auth, "auth.secretStore")>>
            ELSE <<>>)])

\* app_ids: the appId of every entry of dapr_yaml["apps"] that has one.
AppIds(m) == {m[i].appId : i \in 1..Len(m)} \ {""}

ScopeIssue(c, s) == [component |-> c, scope |-> s]

\* validate_service_dependencies: the top-level scopes of every component.
validate_service_dependencies(m, comps) ==
    Flatten([i \in 1..Len(comps) |->
        LET unknown == SelectSeq(comps[i].scopes, LAMBDA s : s \notin AppIds(m))
        IN [j \in 1..Len(unknown) |-> ScopeIssue(VName(comps[i]), unknown[j])]])

\* The validator functions, applied to the project one after the other.
StartValidators ==
    /\ pc = "start"
    /\ program' = "validators"
    /\ pc' = "v_cycles"
    /\ results' = [circular |-> <<>>, secret_refs |-> <<>>, scopes |-> <<>>]
    /\ UNCHANGED <<files, manifest, idx, args, components, apps, graph, issues,
                   warnings, uncaught, exit_code>>

DetectCircularDependenciesV ==
    /\ program = "validators"
    /\ pc = "v_cycles"
    /\ results' = [results EXCEPT !.circular = detect_circular_dependencies(Decoded(files))]
    /\ pc' = "v_secrets"
    /\ UNCHANGED <<files, manifest, program, idx, args, components, apps, graph,
                   issues, warnings, uncaught, exit_code>>

ValidateSecretReferencesV ==
    /\ program = "validators"
    /\ pc = "v_secrets"
    /\ results' = [results EXCEPT !.secret_refs = validate_secret_references(Decoded(files))]
    /\ pc' = "v_scopes"
    /\ UNCHANGED <<files, manifest, program, idx, args, components, apps, graph,
                   issues, warnings, uncaught, exit_code>>

ValidateServiceDependenciesV ==
    /\ program = "validators"
    /\ pc = "v_scopes"
    /\ results' = [results EXCEPT
                      !.scopes = validate_service_dependencies(manifest, Decoded(files))]
    /\ pc' = "returned"
    /\ UNCHANGED <<files, manifest, program, idx, args, components, apps, graph,
                   issues, warnings, uncaught, exit_code>>

\* -------------------------------------------- scripts/validate-config.py
ValidationError(file, message, severity) ==
    [file |-> file, message |-> message, severity |-> severity]

\* re.match(r"^[a-z][a-z0-9-]*$", name), on the names used.
NameMatches(n) == n \in {"a", "b", "c", "d"}

\* comp_type in VALID_COMPONENT_TYPES, on the driver tags used.
IsValidComponentType(t) == t \in {SS, ST}

\* REQUIRED_METADATA.get(comp_type, []), on the driver tags used.
RequiredMetadata(t) == <<>>

\* any(s in name.lower() for s in [password, key, secret, token, credential]),
\* on the entry names used.
LooksLikeSecret(n) == n \in {"password"}

MissingRequired(file, d) ==
    LET missing == SelectSeq(RequiredMetadata(d.type),
                             LAMBDA r : r \notin {d.metadata[i].name : i \in 1..Len(d.metadata)})
    IN [i \in 1..Len(missing) |->
            ValidationError(file, <<"Missing required metadata", missing[i]>>, "error")]

PlainSecrets(file, d) ==
    LET plain == SelectSeq(d.metadata, LAMBDA m : LooksLikeSecret(m.name)
                                                  /\ m.secretKeyRef = NoRef /\ m.value # "")
    IN [i \in 1..Len(plain) |->
            ValidationError(file, <<"appears to contain a secret", plain[i].name>>, "warning")]

\* validate_component
validate_component(file, d) ==
    (IF d.apiVersion # "dapr.io/v1alpha1"
     THEN <<ValidationError(file, <<"Invalid apiVersion", d.apiVersion>>, "error")>> ELSE <<>>)
    \o (IF d.kind # "Component"
        THEN <<ValidationError(file, <<"Invalid kind", d.kind>>, "error")>> ELSE <<>>)
    \o (IF d.name = ""
        THEN <<ValidationError(file, <<"Missing 'metadata.name'">>, "error")>>
        ELSE IF ~NameMatches(d.name)
        THEN <<ValidationError(file, <<"Invalid component name", d.name>>, "error")>>
        ELSE <<>>)
    \o (IF d.type = ""
        THEN <<ValidationError(file, <<"Missing 'spec.type'">>, "error")>>
        ELSE IF ~IsValidComponentType(d.type)
        THEN <<ValidationError(file, <<"Unknown component type", d.type>>, "warning")>>
        ELSE <<>>)
    \o (IF d.version = ""
        THEN <<ValidationError(file, <<"Missing 'spec.version'">>, "error")>> ELSE <<>>)
    \o MissingRequired(file, d)
    \o PlainSecrets(file, d)

\* The loop of validate_dapr_yaml over the apps: w holds errors, seen_app_ids
\* and seen_ports.
RECURSIVE AppErrors(_, _, _)
AppErrors(m, i, w) ==
    IF i > Len(m) THEN w.errors
    ELSE LET app == m[i]
             w1 == IF app.appId = ""
                   THEN [w EXCEPT !.errors =
                            Append(@, ValidationError("dapr.yaml", <<"missing 'appId'", i>>, "error"))]
                   ELSE IF app.appId \in w.seen_app_ids
                   THEN [w EXCEPT !.errors =
                            Append(@, ValidationError("dapr.yaml", <<"Duplicate appId", app.appId>>, "error"))]
                   ELSE [w EXCEPT !.seen_app_ids = @ \cup {app.appId}]
             w2 == IF app.appPort = 0 THEN w1
                   ELSE IF app.appPort \in w1.seen_ports
                   THEN [w1 EXCEPT !.errors =
                            Append(@, ValidationError("dapr.yaml",
                                        <<"Port used by multiple apps", app.appPort>>, "warning"))]
                   ELSE [w1 EXCEPT !.seen_ports = @ \cup {app.appPort}]
         IN AppErrors(m, i + 1, w2)

\* validate_dapr_yaml, on a dapr.yaml that has a version and the apps list m.
validate_dapr_yaml(m) ==
    IF m = <<>> THEN <<ValidationError("dapr.yaml", <<"No apps defined">>, "error")>>
    ELSE AppErrors(m, 1, [errors |-> <<>>, seen_app_ids |-> {}, seen_ports |-> {}])

\* find_config_files: glob("*.yaml") and then glob("**/*.yaml") of components/.
find_config_files(fs) ==
    FilesIn(fs, "components") \o FilesIn(fs, "components") \o FilesIn(fs, "components/sub")

StartValidateConfig ==
    /\ pc = "start"
    /\ program' = "validate-config"
    /\ pc' = "vc_manifest"
    /\ results' = <<>>
    /\ UNCHANGED <<files, manifest, idx, args, components, apps, graph, issues,
                   warnings, uncaught, exit_code>>

\* main: the dapr.yaml branch.  An empty apps list stands for no dapr.yaml.
ValidateDaprYaml ==
    /\ program = "validate-config"
    /\ pc = "vc_manifest"
    /\ results' = IF manifest = <<>> THEN results ELSE results \o validate_dapr_yaml(manifest)
    /\ pc' = "vc_components"
    /\ UNCHANGED <<files, manifest, program, idx, args, components, apps, graph,
                   issues, warnings, uncaught, exit_code>>

\* main: one turn of the loop over component_files.
ValidateComponentFile ==
    /\ program = "validate-config"
    /\ pc = "vc_components"
    /\ idx <= Len(find_config_files(files))
    /\ LET path == find_config_files(files)[idx]
           d == files[path]
       IN results' = results \o
            (IF ~d.yaml_ok
             THEN <<ValidationError(path, <<"YAML syntax error">>, "error")>>
             ELSE validate_component(path, d))
    /\ idx' = idx + 1
    /\ UNCHANGED <<files, manifest, program, pc, args, components, apps, graph,
                   issues, warnings, uncaught, exit_code>>

ErrorsOf(all_errors) == SelectSeq(all_errors, LAMBDA e : e.severity = "error")

WarningsOf(all_errors) == SelectSeq(all_errors, LAMBDA e : e.severity = "warning")

\* main: the summary and sys.exit.  The script takes no flags.
ValidateConfigExit ==
    /\ program = "validate-config"
    /\ pc = "vc_components"
    /\ idx > Len(find_config_files(files))
    /\ exit_code' = IF ErrorsOf(results) # <<>> THEN 1 ELSE 0
    /\ pc' = "exited"
    /\ UNCHANGED <<files, manifest, program, idx, args, components, apps, graph,
                   issues, warnings, results, uncaught>>

Next ==
    \/ StartAnalyzer
    \/ ParseComponentFile
    \/ LoadApps
    \/ BuildDependencyGraph
    \/ DetectCircularDependencies
    \/ ValidateSecretReferences
    \/ ValidateScopeReferences
    \/ ValidateServiceDependencies
    \/ AnalyzeComponentChains
    \/ ReturnResults
    \/ AnalyzerExit
    \/ AnalyzerTraceback
    \/ StartValidators
    \/ DetectCircularDependenciesV
    \/ ValidateSecretReferencesV
    \/ ValidateServiceDependenciesV
    \/ StartValidateConfig
    \/ ValidateDaprYaml
    \/ ValidateComponentFile
    \/ ValidateConfigExit

Spec == Init /\ [][Next]_vars

\* The runs on the projects of overlapping cycles.
SpecOverlap == InitOverlap /\ [][Next]_vars

\* ============================== tests/validators.py: the single-input rules
\* Each rule below is a function of its arguments alone.  One behaviour of
\* SpecCalls is one call: `program` is the function called, `args` its
\* arguments and `results` the list it returns.

\* ----------------------------------------------------------------- bounds
\* Longest spec.metadata list handed to validate_secret_handling.
MaxEntries == 2
\* Longest apps list handed to validate_port_conflicts.
MaxPortApps == 2
\* Longest apps list handed to validate_resource_quotas.
MaxQuotaApps == 2

\* ---------------------------------------------------------------- strings
\* A string whose characters matter is the sequence of its characters.
UpperLetters ==
    <<"A", "B", "C", "D", "E", "F", "G", "H", "I", "J", "K", "L", "M",
      "N", "O", "P", "Q", "R", "S", "T", "U", "V", "W", "X", "Y", "Z">>

LowerLetters ==
    <<"a", "b", "c", "d", "e", "f", "g", "h", "i", "j", "k", "l", "m",
      "n", "o", "p", "q", "r", "s", "t", "u", "v", "w", "x", "y", "z">>

DigitChars == <<"0", "1", "2", "3", "4", "5", "6", "7", "8", "9">>

\* str.lower()
Lower(s) ==
    [i \in 1..Len(s) |->
        IF s[i] \in Range(UpperLetters) THEN LowerLetters[IndexOf(UpperLetters, s[i])]
        ELSE s[i]]

\* pattern in s
Contains(s, pattern) ==
    \E i \in 1..(Len(s) - Len(pattern) + 1) : SubSeq(s, i, i + Len(pattern) - 1) = pattern

\* s.startswith(prefix), s.endswith(suffix)
StartsWith(s, prefix) == Len(prefix) <= Len(s) /\ SubSeq(s, 1, Len(prefix)) = prefix

EndsWith(s, suffix) ==
    Len(suffix) <= Len(s) /\ SubSeq(s, Len(s) - Len(suffix) + 1, Len(s)) = suffix

\* s[:-n]
DropLast(s, n) == SubSeq(s, 1, Len(s) - n)

\* The strings int() and float() accept, among the ones used: digits only.
IsDigits(s) == s # <<>> /\ \A i \in 1..Len(s) : s[i] \in Range(DigitChars)

\* int(s) of a string of digits.
RECURSIVE IntOf(_)
IntOf(s) ==
    IF s = <<>> THEN 0
    ELSE IntOf(Front(s)) * Len(DigitChars) + (IndexOf(DigitChars, s[Len(s)]) - 1)

\* str(n) of a natural number: how YAML text spells it.
RECURSIVE Decimal(_)
Decimal(n) ==
    IF n < Len(DigitChars) THEN <<DigitChars[n + 1]>>
    ELSE Decimal(n \div Len(DigitChars)) \o <<DigitChars[(n % Len(DigitChars)) + 1]>>

\* The text of a quantity: the number followed by its unit.
Text(n, unit) == Decimal(n) \o unit

\* A dict from its items, in order.
RECURSIVE DictOf(_)
DictOf(items) ==
    IF items = <<>> THEN EmptyDict
    ELSE DictSet(DictOf(Front(items)), items[Len(items)][1], items[Len(items)][2])

\* d.get(k, default)
Get(d, k, default) == IF Has(d, k) THEN d.val[k] ELSE default

\* Every dict that holds, for each key, one of the offered values or lacks
\* the key: offers is a sequence of <<key, values>>.
RECURSIVE DictsOver(_)
DictsOver(offers) ==
    IF offers = <<>> THEN {EmptyDict}
    ELSE LET rest == DictsOver(Front(offers))
             k == offers[Len(offers)][1]
         IN rest \cup {DictSet(d, k, v) : d \in rest, v \in offers[Len(offers)][2]}

\* ------------------------------------------------ validate_secret_handling
SECRET_FIELD_PATTERNS ==
    <<<<"p", "a", "s", "s", "w", "o", "r", "d">>,
      <<"s", "e", "c", "r", "e", "t">>,
      <<"k", "e", "y">>,
      <<"t", "o", "k", "e", "n">>,
      <<"c", "r", "e", "d", "e", "n", "t", "i", "a", "l">>,
      <<"m", "a", "s", "t", "e", "r", "K", "e", "y">>,
      <<"a", "c", "c", "e", "s", "s", "K", "e", "y">>,
      <<"c", "o", "n", "n", "e", "c", "t", "i", "o", "n", "S", "t", "r", "i", "n", "g">>,
      <<"a", "p", "i", "K", "e", "y">>,
      <<"c", "l", "i", "e", "n", "t", "I", "d">>,
      <<"c", "l", "i", "e", "n", "t", "S", "e", "c", "r", "e", "t">>>>

\* The entry names and values of the metadata lists checked.
EntryNames ==
    {<<"p", "a", "s", "s", "w", "o", "r", "d">>,
     <<"d", "b", "S", "e", "c", "r", "e", "t">>,
     <<"k", "e", "y">>,
     <<"t", "o", "k", "e", "n">>,
     <<"c", "r", "e", "d", "e", "n", "t", "i", "a", "l">>,
     <<"m", "a", "s", "t", "e", "r", "K", "e", "y">>,
     <<"a", "c", "c", "e", "s", "s", "K", "e", "y">>,
     <<"c", "o", "n", "n", "e", "c", "t", "i", "o", "n", "S", "t", "r", "i", "n", "g">>,
     <<"a", "p", "i", "K", "e", "y">>,
     <<"c", "l", "i", "e", "n", "t", "I", "d">>,
     <<"c", "l", "i", "e", "n", "t", "S", "e", "c", "r", "e", "t">>,
     <<"P", "A", "S", "S", "W", "O", "R", "D">>,
     <<"r", "e", "d", "i", "s", "H", "o", "s", "t">>}

EntryValues ==
    {<<>>, <<"s", "3", "c", "r", "3", "t">>, <<"$", "D", "B">>, <<"{", "{", "x", "}", "}">>}

\* The entries: name always present, value and secretKeyRef present or not.
SecretEntries ==
    {DictSet(d, "name", n) :
        n \in EntryNames,
        d \in DictsOver(<< <<"value", EntryValues>>, <<"secretKeyRef", {"store"}>> >>)}

Issue(message, what) == [message |-> message, what |-> what]

\* The body of the loop of validate_secret_handling, for one entry.
secret_entry_issues(entry) ==
    LET name == Lower(Get(entry, "name", <<>>))
        has_value == Has(entry, "value")
        has_secret_ref == Has(entry, "secretKeyRef")
        is_secret_field ==
            \E i \in 1..Len(SECRET_FIELD_PATTERNS) : Contains(name, SECRET_FIELD_PATTERNS[i])
        value == Get(entry, "value", <<>>)
    IN IF is_secret_field /\ has_value /\ ~has_secret_ref
          /\ value # <<>> /\ ~StartsWith(value, <<"$">>) /\ ~StartsWith(value, <<"{", "{">>)
       THEN <<Issue("appears to be a secret - use secretKeyRef", entry.val["name"])>>
       ELSE <<>>

validate_secret_handling(metadata) ==
    Flatten([i \in 1..Len(metadata) |-> secret_entry_issues(metadata[i])])

\* ------------------------------------------------- validate_port_conflicts
\* RESERVED_PORTS without its last member: the set a slip of the list gives.
ReservedPortsWithoutHttps == {3500, 50001, 9090, 8080}

RESERVED_PORTS == {3500, 50001, 9090, 8080, 8443}

\* The apps of the lists checked: appId, appPort and daprHTTPPort present or
\* not (daprGRPCPort is left to its default, or set with daprHTTPPort).
PortApps ==
    DictsOver(<< <<"appId", {"a", "b"}>>,
                 <<"appPort", {0, 8001, 3500, 50001, 9090, 8080, 8443}>>,
                 <<"daprHTTPPort", {8001}>> >>)
    \cup {DictOf(<< <<"appId", "c">>, <<"appPort", 8002>>, <<"daprHTTPPort", 3501>>,
                    <<"daprGRPCPort", 8001>> >>)}

\* The pairs the inner loop goes through when the port is a custom one.
custom_port_issues(app_id, port, port_type, port_usage) ==
    IF port # 3500 /\ port # 50001 /\ Has(port_usage, port)
    THEN <<Issue("conflicts with another app's port", <<app_id, port_type, port>>)>>
    ELSE <<>>

\* The loop over the apps: w holds issues and port_usage.
RECURSIVE port_loop(_, _)
port_loop(app_list, w) ==
    IF app_list = <<>> THEN w
    ELSE LET app == Head(app_list)
             app_id == Get(app, "appId", "unknown")
             dapr_http_port == Get(app, "daprHTTPPort", 3500)
             dapr_grpc_port == Get(app, "daprGRPCPort", 50001)
             tracked == Has(app, "appPort") /\ app.val["appPort"] # 0
             port == app.val["appPort"]
             w1 == IF ~tracked THEN w
                   ELSE [issues |-> w.issues \o
                            (IF port \in RESERVED_PORTS
                             THEN <<Issue("uses reserved port", <<app_id, port>>)>>
                             ELSE <<>>),
                         port_usage |->
                            DictSet(w.port_usage, port,
                                    Append(Get(w.port_usage, port, <<>>), app_id))]
             w2 == [w1 EXCEPT !.issues =
                        @ \o custom_port_issues(app_id, dapr_http_port, "daprHTTPPort",
                                                w1.port_usage)
                          \o custom_port_issues(app_id, dapr_grpc_port, "daprGRPCPort",
                                                w1.port_usage)]
         IN port_loop(Tail(app_list), w2)

\* The closing loop over port_usage.items().
duplicate_port_issues(port_usage) ==
    LET shared == SelectSeq(port_usage.keys, LAMBDA p : Len(port_usage.val[p]) > 1)
    IN [i \in 1..Len(shared) |->
            Issue("used by multiple apps", <<shared[i], port_usage.val[shared[i]]>>)]

validate_port_conflicts(dapr_yaml) ==
    LET w == port_loop(Get(dapr_yaml, "apps", <<>>), [issues |-> <<>>, port_usage |-> EmptyDict])
    IN w.issues \o duplicate_port_issues(w.port_usage)

\* ------------------------------------------------ validate_resource_quotas
\* cpu is counted in tenths of a core: cpu_max 4.0 is 40.
AZURE_CONTAINER_APPS_LIMITS == [cpu_max |-> 40, memory_max_gi |-> 8, max_replicas |-> 300]

KUBERNETES_DEFAULT_LIMITS == [cpu_max |-> 80, memory_max_gi |-> 32, max_replicas |-> 1000]

\* float(s) inside try/except ValueError: 0.0 when s is no number.
FloatOrZero(s) == IF IsDigits(s) THEN IntOf(s) ELSE 0

\* parse_memory: the GiB as the fraction num / den.
parse_memory(memory_str) ==
    IF memory_str = <<>> THEN [num |-> 0, den |-> 1]
    ELSE IF EndsWith(memory_str, <<"G", "i">>)
    THEN [num |-> IntOf(DropLast(memory_str, 2)), den |-> 1]
    ELSE IF EndsWith(memory_str, <<"M", "i">>)
    THEN [num |-> IntOf(DropLast(memory_str, 2)), den |-> 1024]
    ELSE IF EndsWith(memory_str, <<"K", "i">>)
    THEN [num |-> IntOf(DropLast(memory_str, 2)), den |-> 1024 * 1024]
    ELSE IF EndsWith(memory_str, <<"G">>)
    THEN [num |-> IntOf(DropLast(memory_str, 1)), den |-> 1]
    ELSE IF EndsWith(memory_str, <<"M">>)
    THEN [num |-> IntOf(DropLast(memory_str, 1)), den |-> 1024]
    ELSE [num |-> FloatOrZero(memory_str), den |-> 1]

\* The memory strings, resources and apps of the lists checked.
MemoryTexts ==
    {Text(8, <<"G", "i">>), Text(32, <<"G", "i">>), Text(33, <<"G", "i">>),
     Text(8192, <<"M", "i">>), Text(8193, <<"M", "i">>), Text(1073741824, <<>>)}

ResourceDicts == DictsOver(<< <<"cpu", {40, 41, 80, 81}>>, <<"memory", MemoryTexts>> >>)

ScaleDicts == DictsOver(<< <<"maxReplicas", {300, 301, 1001}>> >>)

\* An app declares resources, or scale, or neither; one declares both and
\* one has no appId.
QuotaApps ==
    {DictSet(d, "appId", "a") :
        d \in DictsOver(<< <<"resources", ResourceDicts>> >>)
               \cup DictsOver(<< <<"scale", ScaleDicts>> >>)}
    \cup {DictOf(<< <<"appId", "b">>,
                    <<"resources", DictOf(<< <<"cpu", 41>>, <<"memory", Text(33, <<"G", "i">>)>> >>)>>,
                    <<"scale", DictOf(<< <<"maxReplicas", 1001>> >>)>> >>),
          DictOf(<< <<"scale", DictOf(<< <<"maxReplicas", 301>> >>)>> >>)}

\* The three checks of the loop of validate_resource_quotas, for one app.
app_quota_issues(app, limits) ==
    LET app_id == Get(app, "appId", "unknown")
        resources == Get(app, "resources", EmptyDict)
        cpu == Get(resources, "cpu", 0)
        memory == Get(resources, "memory", <<>>)
        memory_val == parse_memory(memory)
        scale == Get(app, "scale", EmptyDict)
        max_replicas == Get(scale, "maxReplicas", 10)
    IN (IF cpu # 0 /\ cpu > limits.cpu_max
        THEN <<Issue("CPU exceeds platform limit", <<app_id, cpu>>)>> ELSE <<>>)
       \o (IF memory # <<>> /\ memory_val.num > limits.memory_max_gi * memory_val.den
           THEN <<Issue("memory exceeds platform limit", <<app_id, memory>>)>> ELSE <<>>)
       \o (IF max_replicas > limits.max_replicas
           THEN <<Issue("maxReplicas exceeds platform limit", <<app_id, max_replicas>>)>>
           ELSE <<>>)

validate_resource_quotas(dapr_yaml, deployment_target) ==
    LET limits == IF deployment_target = "container-apps"
                  THEN AZURE_CONTAINER_APPS_LIMITS ELSE KUBERNETES_DEFAULT_LIMITS
        app_list == Get(dapr_yaml, "apps", <<>>)
    IN Flatten([i \in 1..Len(app_list) |-> app_quota_issues(app_list[i], limits)])

\* ---------------------------------------------------------- parse_duration
\* What a call gives: the value it returns, or the exception it raises.
Returns(v) == [raised |-> "", value |-> v]

Raises(e) == [raised |-> e, value |-> 0]

\* int(s) * unit: ValueError when s is not a whole number.
IntTimes(s, unit) == IF IsDigits(s) THEN Returns(IntOf(s) * unit) ELSE Raises("ValueError")

parse_duration(duration_str) ==
    LET s == Lower(duration_str)
    IN IF duration_str = <<>> THEN Returns(0)
       ELSE IF EndsWith(s, <<"h">>) THEN IntTimes(DropLast(s, 1), 3600)
       ELSE IF EndsWith(s, <<"m">>) THEN IntTimes(DropLast(s, 1), 60)
       ELSE IF EndsWith(s, <<"s">>) THEN IntTimes(DropLast(s, 1), 1)
       ELSE IF IsDigits(s) THEN Returns(IntOf(s)) ELSE Returns(0)

\* --------------------------------------------- validate_mtls_configuration
CertTTLs ==
    {Text(24, <<"h">>), Text(25, <<"h">>), Text(48, <<"H">>), Text(1440, <<"m">>),
     Text(1441, <<"m">>), Text(86400, <<>>), Text(86401, <<"s">>)}

ClockSkews ==
    {Text(15, <<"m">>), Text(16, <<"m">>), Text(900, <<"s">>), Text(901, <<>>),
     Text(1, <<"h">>)}

MtlsDicts ==
    DictsOver(<< <<"enabled", BOOLEAN>>, <<"workloadCertTTL", CertTTLs>>,
                 <<"allowedClockSkew", ClockSkews>> >>)

\* The Configuration resources: with and without spec.mtls.
Configurations ==
    {EmptyDict} \cup {DictOf(<< <<"spec", DictOf(<< <<"mtls", m>> >>)>> >>) : m \in MtlsDicts}

\* The production branch: issues so far, then the two duration checks.
mtls_production_issues(mtls) ==
    LET cert_ttl == Get(mtls, "workloadCertTTL", Text(24, <<"h">>))
        clock_skew == Get(mtls, "allowedClockSkew", Text(15, <<"m">>))
        ttl == parse_duration(cert_ttl)
        skew == parse_duration(clock_skew)
        disabled == IF ~Get(mtls, "enabled", FALSE)
                    THEN <<Issue("CRITICAL: mTLS is disabled", <<>>)>> ELSE <<>>
    IN IF ttl.raised # "" THEN Raises(ttl.raised)
       ELSE IF skew.raised # "" THEN Raises(skew.raised)
       ELSE Returns(
            disabled
            \o (IF ttl.value > 86400
                THEN <<Issue("workloadCertTTL is longer than recommended 24h", cert_ttl)>>
                ELSE <<>>)
            \o (IF skew.value > 900
                THEN <<Issue("allowedClockSkew may be too lenient", clock_skew)>>
                ELSE <<>>))

\* validate_mtls_configuration with the test of is_production left out of
\* the branch for a missing resource.
mtls_absent_in_every_run(configuration, is_production) ==
    IF configuration = <<>>
    THEN Returns(<<Issue("No Configuration resource found", <<>>)>>)
    ELSE IF is_production
    THEN mtls_production_issues(Get(Get(configuration[1], "spec", EmptyDict), "mtls", EmptyDict))
    ELSE Returns(<<>>)

\* configuration is <<>> for None, else the one resource.
validate_mtls_configuration(configuration, is_production) ==
    IF configuration = <<>>
    THEN Returns(IF is_production THEN <<Issue("No Configuration resource found", <<>>)>>
                 ELSE <<>>)
    ELSE IF is_production
    THEN mtls_production_issues(Get(Get(configuration[1], "spec", EmptyDict), "mtls", EmptyDict))
    ELSE Returns(<<>>)

\* ---------------------------------------------- validate_resiliency_policy
RetryDurations ==
    {<<>>, Text(0, <<"s">>), Text(1, <<"s">>), Text(5, <<"s">>), Text(99, <<>>),
     Text(100, <<"s">>), Text(2, <<"m">>), Text(1, <<"h">>),
     Text(50, <<"m", "s">>), Text(100, <<"m", "s">>), Text(200, <<"m", "s">>)}

TripTexts == {<<>>, <<"e", "r", "r", "o", "r", "R", "a", "t", "e">>, <<"a", "l", "w", "a", "y", "s">>}

valid_patterns == <<<<"c", "o", "n", "s", "e", "c", "u", "t", "i", "v", "e", "F", "a", "i", "l", "u", "r", "e", "s">>, <<"r", "e", "s", "p", "o", "n", "s", "e", "T", "i", "m", "e">>, <<"e", "r", "r", "o", "r", "R", "a", "t", "e">>>>

\* The policies checked, by policy_type.
Policies ==
    [retry |-> DictsOver(<< <<"maxRetries", {3, 20, 21, 50}>>,
                            <<"duration", RetryDurations>> >>),
     timeout |-> DictsOver(<< <<"responseTimeoutInSeconds", {0, 30, 300, 301}>> >>),
     circuitBreaker |-> DictsOver(<< <<"consecutiveErrors", {1, 2, 5}>>,
                                     <<"timeoutInSeconds", {0, 30}>>,
                                     <<"trip", TripTexts>> >>)]

retry_issues(policy) ==
    LET max_retries == Get(policy, "maxRetries", 3)
        duration == Get(policy, "duration", <<>>)
        parsed == parse_duration(duration)
    IN IF duration # <<>> /\ parsed.raised # "" THEN Raises(parsed.raised)
       ELSE Returns(
            (IF max_retries > 20 THEN <<Issue("Excessive maxRetries", max_retries)>> ELSE <<>>)
            \o (IF duration # <<>> /\ parsed.value < 100
                THEN <<Issue("Very short retry duration", duration)>> ELSE <<>>))

timeout_issues(policy) ==
    LET timeout == Get(policy, "responseTimeoutInSeconds", 0)
    IN IF timeout = 0 THEN <<Issue("Timeout not configured", <<>>)>>
       ELSE IF timeout > 300 THEN <<Issue("Very long timeout", timeout)>>
       ELSE <<>>

circuit_breaker_issues(policy) ==
    LET consecutive_errors == Get(policy, "consecutiveErrors", 5)
        timeout == Get(policy, "timeoutInSeconds", 0)
        trip == Get(policy, "trip", <<>>)
    IN (IF consecutive_errors < 2
        THEN <<Issue("consecutiveErrors is too low", consecutive_errors)>> ELSE <<>>)
       \o (IF timeout = 0 THEN <<Issue("Circuit breaker timeout not set", <<>>)>> ELSE <<>>)
       \o (IF trip # <<>> /\ ~\E i \in 1..Len(valid_patterns) : Contains(trip, valid_patterns[i])
           THEN <<Issue("Circuit breaker trip condition may be invalid", trip)>> ELSE <<>>)

validate_resiliency_policy(policy, policy_type) ==
    IF policy_type = "retry" THEN retry_issues(policy)
    ELSE IF policy_type = "timeout" THEN Returns(timeout_issues(policy))
    ELSE IF policy_type = "circuitBreaker" THEN Returns(circuit_breaker_issues(policy))
    ELSE Returns(<<>>)

\* ----------------------------------------------------- validate_rate_limit
\* A value of a metadata entry as the YAML loader hands it over: a str with
\* its text, an int, a float with its text, or None.
Scalar(kind, text, n) == [kind |-> kind, text |-> text, n |-> n]

StrValue(text) == Scalar("str", text, 0)

IntValue(n) == Scalar("int", <<>>, n)

FloatValue(text) == Scalar("float", text, 0)

NoneValue == Scalar("none", <<>>, 0)

\* The text is an optional sign followed by digits.
IsSignedDigits(s) ==
    s # <<>> /\ (IF s[1] \in {"-", "+"} THEN IsDigits(Tail(s)) ELSE IsDigits(s))

SignedIntOf(s) ==
    IF s[1] = "-" THEN 0 - IntOf(Tail(s))
    ELSE IF s[1] = "+" THEN IntOf(Tail(s))
    ELSE IntOf(s)

\* The part of the text of a float before its point.
WholePart(s) == SubSeq(s, 1, IndexOf(s, ".") - 1)

\* int(value): a str must spell a whole number (ValueError otherwise), a
\* float is truncated towards zero, None is a TypeError.
int(value) ==
    CASE value.kind = "int" -> Returns(value.n)
      [] value.kind = "float" -> Returns(SignedIntOf(WholePart(value.text)))
      [] value.kind = "str" ->
            IF IsSignedDigits(value.text) THEN Returns(SignedIntOf(value.text))
            ELSE Raises("ValueError")
      [] OTHER -> Raises("TypeError")

\* The values checked, around the bounds 0 and 10000.
RateValues ==
    {StrValue(<<"0">>), StrValue(<<"-", "5">>), StrValue(<<"1">>), StrValue(<<"1", "0", "0">>),
     StrValue(Decimal(10000)), StrValue(Decimal(10001)), StrValue(Decimal(1000000)),
     StrValue(<<"a", "b", "c">>), StrValue(<<"3", ".", "5">>), StrValue(<<>>),
     IntValue(0), IntValue(-5), IntValue(1), IntValue(10000), IntValue(10001),
     FloatValue(<<"3", ".", "5">>), FloatValue(<<"0", ".", "5">>), NoneValue}

\* The metadata entries: the rate limit or another field, with or without
\* a value.
RateEntries ==
    DictsOver(<< <<"name", {"maxRequestsPerSecond", "maxBurst"}>>, <<"value", RateValues>> >>)

\* {m.get("name"): m for m in metadata}: a later entry replaces an earlier
\* one of the same name; None is the key of an entry without a name.
RECURSIVE by_name(_)
by_name(metadata) ==
    IF metadata = <<>> THEN EmptyDict
    ELSE DictSet(by_name(Front(metadata)),
                 Get(metadata[Len(metadata)], "name", "None"), metadata[Len(metadata)])

\* validate_rate_limit of validators.py.
validate_rate_limit(metadata) ==
    LET metadata_dict == by_name(metadata)
    IN IF ~Has(metadata_dict, "maxRequestsPerSecond") THEN <<>>
       ELSE LET value == int(Get(metadata_dict.val["maxRequestsPerSecond"], "value", IntValue(0)))
            IN IF value.raised # ""
               THEN <<Issue("maxRequestsPerSecond must be a valid integer", <<>>)>>
               ELSE IF value.value <= 0
               THEN <<Issue("maxRequestsPerSecond must be positive", <<>>)>>
               ELSE <<>>

\* validate_rate_limit of test_middleware_validation.py: the loop over the
\* entries; only ValueError is caught.
RECURSIVE test_middleware_validate_rate_limit(_)
test_middleware_validate_rate_limit(metadata) ==
    IF metadata = <<>> THEN Returns(<<>>)
    ELSE LET before == test_middleware_validate_rate_limit(Front(metadata))
             entry == metadata[Len(metadata)]
             name == Get(entry, "name", "")
             rate == int(Get(entry, "value", StrValue(<<>>)))
         IN IF before.raised # "" \/ name # "maxRequestsPerSecond" THEN before
            ELSE IF rate.raised = "TypeError" THEN Raises("TypeError")
            ELSE IF rate.raised = "ValueError"
            THEN Returns(Append(before.value,
                                Issue("maxRequestsPerSecond should be a number", <<>>)))
            ELSE IF rate.value > 10000
            THEN Returns(Append(before.value,
                                Issue("maxRequestsPerSecond is very high", rate.value)))
            ELSE before

\* ------------------------------------------------------------- the calls
Apps(app_list) == DictOf(<< <<"apps", app_list>> >>)

\* Every call checked: the function and its arguments.  `given` holds the
\* deployment_target argument when the caller passes one.
Calls ==
    {[program |-> "validate_secret_handling", args |-> [metadata |-> md]] :
        md \in SeqsUpTo(SecretEntries, MaxEntries)}
    \cup {[program |-> "validate_port_conflicts", args |-> [dapr_yaml |-> Apps(l)]] :
            l \in SeqsUpTo(PortApps, MaxPortApps)}
    \cup {[program |-> "validate_resource_quotas", args |-> [dapr_yaml |-> Apps(l), given |-> t]] :
            l \in SeqsUpTo(QuotaApps, MaxQuotaApps),
            t \in {<<>>, <<"container-apps">>, <<"kubernetes">>}}
    \cup {[program |-> "validate_mtls_configuration",
           args |-> [configuration |-> c, is_production |-> p]] :
            c \in SeqsUpTo(Configurations, 1), p \in BOOLEAN}
    \cup {[program |-> fn, args |-> [metadata |-> md]] :
            fn \in {"validate_rate_limit", "test_middleware_validate_rate_limit"},
            md \in SeqsUpTo(RateEntries, MaxEntries)}
    \cup UNION {{[program |-> "validate_resiliency_policy",
                   args |-> [policy |-> p, policy_type |-> t]] : p \in Policies[t]} :
                    t \in DOMAIN Policies}

InitCalls ==
    /\ files = <<>>
    /\ manifest = <<>>
    /\ \E c \in Calls : program = c.program /\ args = c.args
    /\ pc = "call"
    /\ idx = 1
    /\ components = EmptyDict
    /\ apps = EmptyDict
    /\ graph = [nodes |-> EmptyDict, edges |-> <<>>, reverse_edges |-> <<>>]
    /\ issues = <<>>
    /\ warnings = <<>>
    /\ results = <<>>
    /\ uncaught = ""
    /\ exit_code = -1

\* The call returns r.value, or r.raised leaves it.
Return(r) ==
    /\ results' = (IF r.raised = "" THEN r.value ELSE <<>>)
    /\ uncaught' = r.raised
    /\ pc' = (IF r.raised = "" THEN "returned" ELSE "raised")
    /\ UNCHANGED <<files, manifest, program, idx, args, components, apps, graph,
                   issues, warnings, exit_code>>

ValidateSecretHandling ==
    /\ program = "validate_secret_handling"
    /\ pc = "call"
    /\ Return(Returns(validate_secret_handling(args.metadata)))

ValidatePortConflicts ==
    /\ program = "validate_port_conflicts"
    /\ pc = "call"
    /\ Return(Returns(validate_port_conflicts(args.dapr_yaml)))

ValidateResourceQuotas ==
    /\ program = "validate_resource_quotas"
    /\ pc = "call"
    /\ LET deployment_target == IF args.given = <<>> THEN "container-apps" ELSE args.given[1]
       IN Return(Returns(validate_resource_quotas(args.dapr_yaml, deployment_target)))

ValidateMtlsConfiguration ==
    /\ program = "validate_mtls_configuration"
    /\ pc = "call"
    /\ Return(validate_mtls_configuration(args.configuration, args.is_production))

ValidateResiliencyPolicy ==
    /\ program = "validate_resiliency_policy"
    /\ pc = "call"
    /\ Return(validate_resiliency_policy(args.policy, args.policy_type))

ValidateRateLimit ==
    /\ program = "validate_rate_limit"
    /\ pc = "call"
    /\ Return(Returns(validate_rate_limit(args.metadata)))

TestMiddlewareValidateRateLimit ==
    /\ program = "test_middleware_validate_rate_limit"
    /\ pc = "call"
    /\ Return(test_middleware_validate_rate_limit(args.metadata))

NextCalls ==
    \/ ValidateSecretHandling
    \/ ValidatePortConflicts
    \/ ValidateResourceQuotas
    \/ ValidateMtlsConfiguration
    \/ ValidateResiliencyPolicy
    \/ ValidateRateLimit
    \/ TestMiddlewareValidateRateLimit

\* The calls of the single-input rules of validators.py.
SpecCalls == InitCalls /\ [][NextCalls]_vars

\* =========================== dependency-analyzer.py: the loops step by step
\* One behaviour of SpecSteps is one run of a loop or recursion of the
\* analyzer, one iteration or call per step: `program` names the function,
\* `args` holds its inputs and `results` its local variables and call stack.

\* ----------------------------------------------------------------- bounds
\* Most component files of a project whose graph is walked step by step.
MaxStepFiles == 3

\* Deepest start directory below the root of the file system.
MaxDirDepth == 3

\* Most frames of a recursion on the call stack.
MaxFrames == 4

StepNames == <<"a", "b", "c", "d">>

\* The component files a project can have at position i: a secret store or
\* a state store, with or without a secretKeyRef.
StepDocsAt(i) ==
    {Doc("Component", StepNames[((i - 1) % Len(StepNames)) + 1], t, rs, "", <<>>, <<>>) :
        t \in {SS, ST}, rs \in {<<>>, <<"a">>}}

StepProjects ==
    UNION {{fs \in [1..k -> UNION {StepDocsAt(i) : i \in 1..k}] :
                \A i \in 1..k : fs[i] \in StepDocsAt(i)} : k \in 0..MaxStepFiles}

\* _load_components over the files of the project.
RECURSIVE LoadFiles(_, _, _)
LoadFiles(w, fs, paths) ==
    IF paths = <<>> THEN w
    ELSE LoadFiles(parse_component_file(w, Head(paths), fs[Head(paths)]), fs, Tail(paths))

\* analyze, up to the graph the later steps read: _load_components and
\* _build_dependency_graph.
BuiltProject(fs) ==
    LET w == LoadFiles([components |-> EmptyDict,
                        graph |-> [nodes |-> EmptyDict, edges |-> <<>>, reverse_edges |-> <<>>],
                        warnings |-> <<>>], fs, LoadOrder(fs))
        b == BuildGraph(w.graph, w.components)
    IN [components |-> [w.components EXCEPT !.val = b.objs],
        graph |-> [b.g EXCEPT !.nodes = [@ EXCEPT !.val = b.objs]]]

\* A directory on the way from the root to start_path is named by its
\* depth; `marked` holds the depths of the directories that contain
\* dapr.yaml or components.
InitSteps ==
    /\ manifest = <<>>
    /\ idx = 1
    /\ apps = EmptyDict
    /\ issues = <<>>
    /\ warnings = <<>>
    /\ results = <<>>
    /\ uncaught = ""
    /\ exit_code = -1
    /\ pc = "call"
    /\ \/ /\ program = "find_config_root"
          /\ files = <<>>
          /\ components = EmptyDict
          /\ graph = [nodes |-> EmptyDict, edges |-> <<>>, reverse_edges |-> <<>>]
          /\ \E d \in 0..MaxDirDepth, m \in SUBSET (0..MaxDirDepth) :
                args = [start_path |-> d, marked |-> m]
       \/ /\ program \in {"_detect_circular_dependencies", "_analyze_component_chains"}
          /\ files \in StepProjects
          /\ components = BuiltProject(files).components
          /\ graph = BuiltProject(files).graph
          /\ \E ord \in Orders(Targets(graph)) : args = [ord |-> ord]

\* ---------------------------------------------------------- find_config_root
\* Path.parent: the root is its own parent.
parent(current) == IF current = 0 THEN 0 ELSE current - 1

\* current = Path(start_path).resolve()
FindConfigRootResolve ==
    /\ program = "find_config_root"
    /\ pc = "call"
    /\ results' = [current |-> args.start_path, returned |-> -1]
    /\ pc' = "walk"
    /\ UNCHANGED <<files, manifest, program, idx, args, components, apps, graph, issues,
                   warnings, uncaught, exit_code>>

\* One test of the while condition and, when it holds, one turn of the loop.
FindConfigRootWalk ==
    /\ program = "find_config_root"
    /\ pc = "walk"
    /\ IF results.current # parent(results.current)
       THEN IF results.current \in args.marked
            THEN /\ results' = [results EXCEPT !.returned = results.current]
                 /\ pc' = "done"
            ELSE /\ results' = [results EXCEPT !.current = parent(@)]
                 /\ pc' = "walk"
       ELSE /\ results' = [results EXCEPT !.returned = args.start_path]
            /\ pc' = "done"
    /\ UNCHANGED <<files, manifest, program, idx, args, components, apps, graph, issues,
                   warnings, uncaught, exit_code>>

\* -------------------------------------- _detect_circular_dependencies.dfs
\* A frame of dfs holds its node and the neighbours its loop has yet to
\* take; `todo` holds the nodes the outer loop has yet to take.
enter_dfs_unmarked(st, node, nbrs) ==
    [st EXCEPT !.rec_stack = @ \cup {node}, !.path = Append(@, node),
               !.frames = Append(@, [node |-> node, nbrs |-> nbrs])]

\* dfs is entered: visited.add(node), rec_stack.add(node), path.append(node).
enter_dfs(st, node, nbrs) ==
    [st EXCEPT !.visited = @ \cup {node}, !.rec_stack = @ \cup {node},
               !.path = Append(@, node),
               !.frames = Append(@, [node |-> node, nbrs |-> nbrs])]

\* visited = set(); rec_stack = set(); cycles = []
DfsStart ==
    /\ program = "_detect_circular_dependencies"
    /\ pc = "call"
    /\ results' = [visited |-> {}, rec_stack |-> {}, path |-> <<>>, cycles |-> <<>>,
                   frames |-> <<>>, todo |-> graph.nodes.keys]
    /\ pc' = "run"
    /\ UNCHANGED <<files, manifest, program, idx, args, components, apps, graph, issues,
                   warnings, uncaught, exit_code>>

\* for node in self.graph.nodes: if node not in visited: dfs(node, [])
DfsFromEach ==
    /\ program = "_detect_circular_dependencies"
    /\ pc = "run"
    /\ results.frames = <<>>
    /\ results.todo # <<>>
    /\ LET node == Head(results.todo)
           st == [results EXCEPT !.todo = Tail(@)]
       IN results' = IF node \in results.visited THEN st
                     ELSE enter_dfs([st EXCEPT !.path = <<>>], node,
                                    Iterate(get_dependencies(graph, node), args.ord))
    /\ UNCHANGED <<files, manifest, program, pc, idx, args, components, apps, graph,
                   issues, warnings, uncaught, exit_code>>

\* One turn of the loop over the neighbours in the innermost dfs, or its
\* return once the neighbours are exhausted.  A found cycle returns True
\* through every caller; path.index raises when the neighbour is not on path.
DfsStep ==
    /\ program = "_detect_circular_dependencies"
    /\ pc = "run"
    /\ results.frames # <<>>
    /\ LET top == results.frames[Len(results.frames)]
           neighbor == Head(top.nbrs)
           st == [results EXCEPT !.frames[Len(results.frames)].nbrs = Tail(@)]
       IN IF top.nbrs = <<>>
          THEN /\ results' = [results EXCEPT !.path = Front(@), !.rec_stack = @ \ {top.node},
                                             !.frames = Front(@)]
               /\ UNCHANGED <<pc, uncaught>>
          ELSE IF neighbor \notin results.visited
          THEN /\ Len(results.frames) < MaxFrames
               /\ results' = enter_dfs(st, neighbor,
                                       Iterate(get_dependencies(graph, neighbor), args.ord))
               /\ UNCHANGED <<pc, uncaught>>
          ELSE IF neighbor \in results.rec_stack
          THEN IF neighbor \notin Range(results.path)
               THEN /\ results' = st
                    /\ uncaught' = "ValueError"
                    /\ pc' = "done"
               ELSE /\ results' =
                        [st EXCEPT !.cycles =
                                Append(@, SubSeq(results.path, IndexOf(results.path, neighbor),
                                                 Len(results.path)) \o <<neighbor>>),
                                   !.frames = <<>>]
                    /\ UNCHANGED <<pc, uncaught>>
          ELSE /\ results' = st
               /\ UNCHANGED <<pc, uncaught>>
    /\ UNCHANGED <<files, manifest, program, idx, args, components, apps, graph, issues,
                   warnings, exit_code>>

\* The outer loop is over: the found cycles become issues.
DfsDone ==
    /\ program = "_detect_circular_dependencies"
    /\ pc = "run"
    /\ results.frames = <<>>
    /\ results.todo = <<>>
    /\ issues' = issues \o CycleFindings(results.cycles)
    /\ pc' = "done"
    /\ UNCHANGED <<files, manifest, program, idx, args, components, apps, graph,
                   warnings, results, uncaught, exit_code>>

\* ---------------------------- _analyze_component_chains.get_chain_depth
\* No call has returned a value that its caller has yet to take.
NoReturn == 0 - 1

\* get_chain_depth(node, visited) is called: it returns 0 or 1 at once, or
\* gets a frame with its own visited set, the dependencies max() has yet to
\* take and the greatest depth returned so far.
call_get_chain_depth(st, node, visited) ==
    IF node \in visited THEN [st EXCEPT !.ret = 0]
    ELSE IF get_dependencies(graph, node) = {} THEN [st EXCEPT !.ret = 1]
    ELSE [st EXCEPT !.frames =
                Append(@, [node |-> node, visited |-> visited \cup {node},
                           deps |-> Iterate(get_dependencies(graph, node), args.ord),
                           best |-> 0])]

ChainStart ==
    /\ program = "_analyze_component_chains"
    /\ pc = "call"
    /\ results' = [todo |-> graph.nodes.keys, name |-> "", frames |-> <<>>,
                   ret |-> NoReturn, depths |-> <<>>]
    /\ pc' = "run"
    /\ UNCHANGED <<files, manifest, program, idx, args, components, apps, graph, issues,
                   warnings, uncaught, exit_code>>

\* for name in self.graph.nodes: get_chain_depth(name, set())
ChainFromEach ==
    /\ program = "_analyze_component_chains"
    /\ pc = "run"
    /\ results.frames = <<>>
    /\ results.ret = NoReturn
    /\ results.todo # <<>>
    /\ results' = call_get_chain_depth(
                        [results EXCEPT !.todo = Tail(@), !.name = Head(results.todo)],
                        Head(results.todo), {})
    /\ UNCHANGED <<files, manifest, program, pc, idx, args, components, apps, graph,
                   issues, warnings, uncaught, exit_code>>

\* One step of 1 + max(get_chain_depth(dep, visited.copy()) for dep in deps)
\* in the innermost call: take the value a call returned, make the next
\* call, or return.
ChainStep ==
    /\ program = "_analyze_component_chains"
    /\ pc = "run"
    /\ results.frames # <<>>
    /\ LET at == Len(results.frames)
           top == results.frames[at]
       IN IF results.ret # NoReturn
          THEN results' = [results EXCEPT !.frames[at].best = Max({@, results.ret}),
                                          !.ret = NoReturn]
          ELSE IF top.deps = <<>>
          THEN results' = [results EXCEPT !.frames = Front(@), !.ret = 1 + top.best]
          ELSE /\ Len(results.frames) < MaxFrames
               /\ results' = call_get_chain_depth(
                                [results EXCEPT !.frames[at].deps = Tail(@)],
                                Head(top.deps), top.visited)
    /\ UNCHANGED <<files, manifest, program, pc, idx, args, components, apps, graph,
                   issues, warnings, uncaught, exit_code>>

\* depth = get_chain_depth(name, set()); if depth > 3: self.warnings.append
ChainRecord ==
    /\ program = "_analyze_component_chains"
    /\ pc = "run"
    /\ results.frames = <<>>
    /\ results.ret # NoReturn
    /\ results' = [results EXCEPT !.depths = Append(@, results.ret), !.ret = NoReturn]
    /\ warnings' = warnings \o
            (IF results.ret > MaxChainDepth
             THEN <<Finding("deep_dependency_chain", "", results.name, <<results.ret>>)>>
             ELSE <<>>)
    /\ UNCHANGED <<files, manifest, program, pc, idx, args, components, apps, graph,
                   issues, uncaught, exit_code>>

ChainDone ==
    /\ program = "_analyze_component_chains"
    /\ pc = "run"
    /\ results.frames = <<>>
    /\ results.ret = NoReturn
    /\ results.todo = <<>>
    /\ pc' = "done"
    /\ UNCHANGED <<files, manifest, program, idx, args, components, apps, graph, issues,
                   warnings, results, uncaught, exit_code>>

NextSteps ==
    \/ FindConfigRootResolve
    \/ FindConfigRootWalk
    \/ DfsStart
    \/ DfsFromEach
    \/ DfsStep
    \/ DfsDone
    \/ ChainStart
    \/ ChainFromEach
    \/ ChainStep
    \/ ChainRecord
    \/ ChainDone

\* The interpreter runs the one thread of the program until it ends.
SpecSteps == InitSteps /\ [][NextSteps]_vars /\ WF_vars(NextSteps)

\* ================================================================ claims
Analyzer == program = "dependency-analyzer"

Validators == program = "validators"

\* The steps of analyze that follow each rule.
AfterScopes == {"services", "chains", "summary", "exit"}

AfterSecrets == AfterScopes \cup {"scopes"}

AfterCycles == AfterSecrets \cup {"secrets"}

\* The run has ended: sys.exit was called or the traceback was printed.
Exited == pc = "exited"

\* The detection of the analyzer has run (and returned or raised).
DetectionRan == Analyzer /\ (pc \in AfterCycles \cup {"traceback"} \/ Exited)

\* A rule of the analyzer has returned.
Returned(after) == Analyzer /\ uncaught = "" /\ (pc \in after \/ Exited)

\* The detection of validators.py has returned.
DetectionRanV == Validators /\ pc \in {"v_secrets", "v_scopes", "returned"}

OfType(fs, t) == SelectSeq(fs, LAMBDA f : f.type = t)

\* The cycle lists the analyzer reported.
ReportedCycles ==
    LET found == OfType(issues, "circular_dependency")
    IN [i \in 1..Len(found) |-> found[i].what]

\* The edges of the analyzer's graph, and of the graph validators.py builds.
Edge(x, y) == y \in get_dependencies(graph, x)

VGraph == DependencyLists(Decoded(files), ComponentNames(Decoded(files)), EmptyDict)

EdgeV(x, y) == Has(VGraph, x) /\ y \in Range(VGraph.val[x])

NodeNames == {"a", "b", "c", "d"}

\* c lists a cycle of the relation E: closed, and every step an edge.
IsCycleList(c, E(_, _)) ==
    /\ Len(c) >= 2
    /\ c[1] = c[Len(c)]
    /\ \A i \in 1..(Len(c) - 1) : E(c[i], c[i + 1])

\* The relation E has a directed cycle: some node reaches itself.
RECURSIVE ReachIn(_, _, _)
ReachIn(E(_, _), from, k) ==
    IF k = 0 THEN from
    ELSE ReachIn(E, from \cup {y \in NodeNames : \E x \in from : E(x, y)}, k - 1)

HasCycle(E(_, _)) ==
    \E n \in NodeNames :
        n \in ReachIn(E, {y \in NodeNames : E(n, y)}, Cardinality(NodeNames))

\* C1: every cycle list that circular-dependency detection reports is a real
\* cycle of the dependency graph: it starts and ends at the same name and
\* every consecutive pair is an edge, also after an earlier start node has
\* already found a cycle.
C1_ReportedCyclesAreCycles ==
    /\ DetectionRan => \A i \in 1..Len(ReportedCycles) : IsCycleList(ReportedCycles[i], Edge)
    /\ DetectionRanV => \A i \in 1..Len(results.circular) : IsCycleList(results.circular[i], EdgeV)

\* C2: no step of DependencyAnalyzer.analyze raises an exception out of
\* analyze, whatever the project.
C2_AnalyzeNeverRaises == uncaught = ""

\* C3: detection emits at least one circular_dependency finding if and only
\* if the dependency graph has a directed cycle.
C3_FindingIffCycle ==
    /\ DetectionRan => (ReportedCycles # <<>> <=> HasCycle(Edge))
    /\ DetectionRanV => (results.circular # <<>> <=> HasCycle(EdgeV))

\* A 2-cycle and a 3-cycle of E that share exactly one node.
OverlappingCycles(E(_, _)) ==
    \E x \in NodeNames, y \in NodeNames, p \in NodeNames, q \in NodeNames :
        /\ Cardinality({x, y, p, q}) = 4
        /\ E(x, y) /\ E(y, x)
        /\ E(x, p) /\ E(p, q) /\ E(q, x)

\* cs is two findings, one listing a 2-cycle of E and one a 3-cycle.
BothReported(cs, E(_, _)) ==
    /\ Len(cs) = 2
    /\ \E i \in 1..2, j \in 1..2 :
        /\ IsCycleList(cs[i], E) /\ Len(cs[i]) = 3 /\ cs[i][1] # cs[i][2]
        /\ IsCycleList(cs[j], E) /\ Len(cs[j]) = 4
           /\ Cardinality(Range(cs[j])) = 3

\* C4: when the graph has a cycle of length 2 and a cycle of length 3 that
\* share one node, detection reports two findings, one for each cycle.
C4_OverlappingCyclesBothReported ==
    /\ (DetectionRan /\ OverlappingCycles(Edge)) => BothReported(ReportedCycles, Edge)
    /\ (DetectionRanV /\ OverlappingCycles(EdgeV)) => BothReported(results.circular, EdgeV)

\* C5: after secret-reference validation, every reference of a component C
\* to a store name that is no secret-store component has an error finding
\* of category missing_secret_store that names C and the store, whether or
\* not the project has other secret stores.
C5_MissingStoreReported ==
    Returned(AfterSecrets) =>
        \A c \in Range(components.keys) :
            \A r \in Range(components.val[c].secret_refs) :
                r \notin Range(SecretStoreNames(components)) =>
                    \E i \in 1..Len(issues) :
                        /\ issues[i].type = "missing_secret_store"
                        /\ issues[i].severity = "error"
                        /\ issues[i].component = c
                        /\ r \in Range(issues[i].what)

HasErrorFinding == \E i \in 1..Len(issues) : issues[i].severity = "error"

\* C6: in strict mode the analyzer exits with 1 if and only if there is an
\* error finding, or warnings_as_errors is set and there is a warning;
\* otherwise with 0.
C6_StrictExitCode ==
    (Analyzer /\ Exited /\ args.strict) =>
        exit_code = (IF HasErrorFinding \/ (args.warnings_as_errors /\ warnings # <<>>)
                     THEN 1 ELSE 0)

\* C7: a run that is not in strict mode exits with 0 whatever it found.
C7_NonStrictExitsZero ==
    (Exited /\ program \in {"dependency-analyzer", "validate-config"} /\ ~args.strict) =>
        exit_code = 0

\* What a run of the analyzer shows: whether it ended in a traceback, and
\* the findings in the order they are listed.
Outcome(r, is, ws) == [raised |-> r, issues |-> is, warnings |-> ws]

RECURSIVE LoadComponentsIn(_, _, _)
LoadComponentsIn(fs, order, w) ==
    IF order = <<>> THEN w
    ELSE LoadComponentsIn(fs, Tail(order), parse_component_file(w, Head(order), fs[Head(order)]))

\* analyze on the documents fs and the apps list m, when the directory
\* entries come in the order `order` and the sets iterate as deps and inv.
RunOutcome(fs, m, order, deps, inv) ==
    LET w == LoadComponentsIn(fs, order,
                [components |-> EmptyDict,
                 graph |-> [nodes |-> EmptyDict, edges |-> <<>>, reverse_edges |-> <<>>],
                 warnings |-> <<>>])
        as == LoadAppsFrom(m, EmptyDict)
        b == BuildGraph(w.graph, w.components)
        cs == [w.components EXCEPT !.val = b.objs]
        g == [b.g EXCEPT !.nodes = [@ EXCEPT !.val = b.objs]]
        d == DetectCycles(g, deps)
        f == SecretRefFindings(cs, cs.keys,
                [issues |-> CycleFindings(d.cycles), warnings |-> w.warnings])
    IN IF d.raised THEN Outcome(TRUE, <<>>, w.warnings)
       ELSE Outcome(FALSE, f.issues,
                    f.warnings \o ScopeFindings(cs, as) \o ServiceFindings(as, inv)
                    \o ChainFindings(g))

\* The orders in which a glob can yield the files of the project: the
\* directories in turn, the entries of each in any order.
DirectoryOrders(fs) ==
    {o \in Orders(1..Len(fs)) :
        \A i \in 1..Len(fs) : \A j \in 1..Len(fs) :
            (i < j /\ fs[o[i]].dir # fs[o[j]].dir) =>
                \E k \in 1..Len(fs) : \E l \in 1..Len(fs) :
                    /\ k < l
                    /\ LoadOrder(fs)[k] = o[i]
                    /\ LoadOrder(fs)[l] = o[j]}

\* C8: for a fixed project every run of the analyzer gives the same findings
\* in the same order with the same cycle lists, whatever order the sets and
\* the directory entries are iterated in.
C8_RunsAgree ==
    (Analyzer /\ Exited) =>
        \A order \in DirectoryOrders(files) :
            \A deps \in Orders(NodeNames) :
                \A inv \in Orders(AllInvoked(apps)) :
                    RunOutcome(files, manifest, order, deps, inv)
                        = Outcome(uncaught # "", issues, warnings)

ScopeNames == {"app1", "app2", "ghost"}

Count(fs, P(_)) == Len(SelectSeq(fs, P))

\* C9: scope validation emits one unknown_scope warning for each pair of a
\* component and one of its scopes that is no app id, none for a scope that
\* is an app id, and none at all when the project has no apps.
C9_OneWarningPerUnknownScope ==
    /\ Returned(AfterScopes) =>
        \A c \in Range(components.keys) : \A sc \in ScopeNames :
            Count(warnings, LAMBDA f : f.type = "unknown_scope" /\ f.component = c
                                       /\ f.what = <<sc>>)
                = (IF sc \in Range(components.val[c].scopes) /\ ~Has(apps, sc)
                      /\ apps.keys # <<>>
                   THEN 1 ELSE 0)
    /\ (Validators /\ pc = "returned") =>
        \A c \in NodeNames : \A sc \in ScopeNames :
            Count(results.scopes, LAMBDA f : f = ScopeIssue(c, sc))
                = (IF (\E i \in 1..Len(Decoded(files)) :
                          Decoded(files)[i].name = c /\ sc \in Range(Decoded(files)[i].scopes))
                      /\ sc \notin AppIds(manifest) /\ AppIds(manifest) # {}
                   THEN 1 ELSE 0)

\* The files _parse_component_file registers as components.
Accepted(d) == d.yaml_ok /\ d.kind = "Component" /\ d.name # ""

\* Two files of the project declare the name n, the one at p1 loaded first.
DeclaredTwice(n, p1, p2) ==
    \E i \in 1..Len(files) : \E j \in 1..Len(files) :
        /\ i < j
        /\ LoadOrder(files)[i] = p1 /\ LoadOrder(files)[j] = p2
        /\ Accepted(files[p1]) /\ Accepted(files[p2])
        /\ files[p1].name = n /\ files[p2].name = n

\* C10: when two component files declare the same metadata.name, loading
\* reports an error finding for the duplicate, and the later component does
\* not silently replace the earlier one in the project or the graph.
C10_DuplicateNameReported ==
    (Analyzer /\ pc = "build") =>
        \A n \in NodeNames : \A p1 \in 1..Len(files) : \A p2 \in 1..Len(files) :
            DeclaredTwice(n, p1, p2) =>
                /\ HasErrorFinding
                /\ ~(~HasErrorFinding /\ components.val[n].file_path = p2)
                /\ ~(~HasErrorFinding /\ graph.nodes.val[n].file_path = p2)

\* Two entries of the apps list carry the app id: the ones at i and j.
SameAppId(id, i, j) ==
    /\ i \in 1..Len(manifest) /\ j \in 1..Len(manifest) /\ i < j
    /\ id # "" /\ manifest[i].appId = id /\ manifest[j].appId = id

\* C11: when the app manifest has two entries with the same appId, an error
\* finding for the duplicate appId is reported (by the analyzer's loader and
\* by validate_dapr_yaml), and the later entry does not replace the earlier
\* one in the analyzer's apps.
C11_DuplicateAppIdReported ==
    \A id \in {"app1", "app2"} : \A i \in 1..Len(manifest) : \A j \in 1..Len(manifest) :
        SameAppId(id, i, j) =>
            /\ (Analyzer /\ pc = "build") =>
                    /\ \E k \in 1..Len(issues) : issues[k].severity = "error"
                    /\ apps.val[id] = App(manifest[i])
            /\ (program = "validate-config" /\ pc = "vc_components") =>
                    \E k \in 1..Len(results) :
                        /\ results[k].severity = "error"
                        /\ results[k].message = <<"Duplicate appId", id>>

\* The findings of validate-config.py about component files: the ones that
\* follow the findings about dapr.yaml.
ComponentFindings ==
    SubSeq(results, (IF manifest = <<>> THEN 0 ELSE Len(validate_dapr_yaml(manifest))) + 1,
           Len(results))

\* The findings of validate-config.py about the file at position p.
AboutFile(p, sev) == SelectSeq(ComponentFindings, LAMBDA e : e.file = p /\ e.severity = sev)

\* C12: a file with a YAML syntax error contributes exactly one warning and
\* no error finding, contributes no component, and the other files are still
\* loaded (analyzer) and validated (validate-config.py).
C12_SyntaxErrorIsOneWarning ==
    /\ (Analyzer /\ pc = "build") =>
            \A p \in Range(LoadOrder(files)) :
                IF ~files[p].yaml_ok
                THEN /\ Count(warnings, LAMBDA f : f.what = <<p>>) = 1
                     /\ ~HasErrorFinding
                     /\ \A n \in Range(components.keys) : components.val[n].file_path # p
                ELSE Accepted(files[p]) => Has(components, files[p].name)
    /\ (program = "validate-config" /\ Exited) =>
            \A p \in Range(find_config_files(files)) :
                ~files[p].yaml_ok =>
                    /\ Len(AboutFile(p, "warning")) = 1
                    /\ Len(AboutFile(p, "error")) = 0

\* The gate of the claim: kind "Component" and the supported apiVersion.
IsComponentDocument(d) == d.kind = "Component" /\ d.apiVersion = "dapr.io/v1alpha1"

\* The file at p is the only one of the project with its metadata.name.
OnlyOfItsName(p) == \A q \in 1..Len(files) : files[q].name = files[p].name => q = p

\* C13: a parsed document (with a metadata.name no other file has) is
\* registered as a Component iff its kind is "Component" and its apiVersion
\* is "dapr.io/v1alpha1"; a document with another kind or apiVersion, or no
\* kind, produces no finding, neither in the analyzer nor in
\* validate-config.py.
C13_RegisteredIffComponent ==
    /\ (Analyzer /\ pc = "build") =>
            \A p \in Range(LoadOrder(files)) :
                (files[p].yaml_ok /\ files[p].name # "" /\ OnlyOfItsName(p)) =>
                    /\ Has(components, files[p].name) <=> IsComponentDocument(files[p])
                    /\ ~IsComponentDocument(files[p]) =>
                            ~\E k \in 1..Len(warnings) : warnings[k].what = <<p>>
    /\ (program = "validate-config" /\ Exited) =>
            \A p \in Range(find_config_files(files)) :
                (files[p].yaml_ok /\ ~IsComponentDocument(files[p])) =>
                    ~\E k \in 1..Len(ComponentFindings) : ComponentFindings[k].file = p

\* A call of the function fn has ended (returned, or raised).
Called(fn) == program = fn /\ pc \in {"returned", "raised"}

\* The eleven substrings, in lower case.
ClaimedSecretSubstrings ==
    {<<"p", "a", "s", "s", "w", "o", "r", "d">>,
     <<"s", "e", "c", "r", "e", "t">>,
     <<"k", "e", "y">>,
     <<"t", "o", "k", "e", "n">>,
     <<"c", "r", "e", "d", "e", "n", "t", "i", "a", "l">>,
     <<"c", "o", "n", "n", "e", "c", "t", "i", "o", "n", "s", "t", "r", "i", "n", "g">>,
     <<"m", "a", "s", "t", "e", "r", "k", "e", "y">>,
     <<"a", "c", "c", "e", "s", "s", "k", "e", "y">>,
     <<"a", "p", "i", "k", "e", "y">>,
     <<"c", "l", "i", "e", "n", "t", "i", "d">>,
     <<"c", "l", "i", "e", "n", "t", "s", "e", "c", "r", "e", "t">>}

\* The entry is a plain-text secret.
IsPlainSecret(entry) ==
    /\ \E sub \in ClaimedSecretSubstrings : Contains(Lower(entry.val["name"]), sub)
    /\ Has(entry, "value") /\ entry.val["value"] # <<>>
    /\ ~Has(entry, "secretKeyRef")
    /\ ~StartsWith(entry.val["value"], <<"$">>)
    /\ ~StartsWith(entry.val["value"], <<"{", "{">>)

\* C14: validate_secret_handling flags a metadata entry if and only if its
\* name contains, case-insensitively, one of the eleven substrings, it has a
\* non-empty plain value and no secretKeyRef, and the value does not begin
\* with $ or {{: for every name, as many findings as such entries.
C14_PlainSecretFlaggedIff ==
    Called("validate_secret_handling") =>
        \A n \in EntryNames :
            Count(results, LAMBDA r : r.what = n)
                = Count(args.metadata, LAMBDA e : e.val["name"] = n /\ IsPlainSecret(e))

\* The appPort values of the manifests and apps lists checked.
PortValues == {8001, 8002, 8003, 3500, 50001, 9090, 8080, 8443}

\* The ids of the entries of the list that claim appPort p, in list order.
Claimers(app_list, p, id_of(_), port_of(_)) ==
    LET claiming == SelectSeq(app_list, LAMBDA a : port_of(a) = p)
    IN [i \in 1..Len(claiming) |-> id_of(claiming[i])]

ManifestClaimers(p) == Claimers(manifest, p, LAMBDA a : a.appId, LAMBDA a : a.appPort)

ListClaimers(p) ==
    Claimers(Get(args.dapr_yaml, "apps", <<>>), p,
             LAMBDA a : Get(a, "appId", "unknown"), LAMBDA a : Get(a, "appPort", 0))

\* C15: for every appPort claimed by more than one app, port validation
\* emits an error-severity port-conflict finding for the port that lists all
\* the apps claiming it, and none for a port claimed by exactly one app; in
\* validate_dapr_yaml of validate-config.py and in validate_port_conflicts.
C15_PortConflictListsApps ==
    /\ (program = "validate-config" /\ pc = "vc_components") =>
            \A p \in PortValues :
                LET about == SelectSeq(results, LAMBDA e : e.message[1] = "Port used by multiple apps"
                                                           /\ e.message[2] = p)
                IN IF Len(ManifestClaimers(p)) > 1
                   THEN \E i \in 1..Len(about) :
                            /\ about[i].severity = "error"
                            /\ \A id \in Range(ManifestClaimers(p)) : id \in Range(about[i].message)
                   ELSE about = <<>>
    /\ Called("validate_port_conflicts") =>
            \A p \in PortValues :
                LET about == SelectSeq(results, LAMBDA r : r.message = "used by multiple apps"
                                                           /\ r.what[1] = p)
                IN IF Len(ListClaimers(p)) > 1
                   THEN about = <<Issue("used by multiple apps", <<p, ListClaimers(p)>>)>>
                   ELSE about = <<>>

ClaimedReservedPorts == {3500, 50001, 9090, 8080, 8443}

\* The apps of the list with this id and appPort.
AppsWith(id, p) ==
    SelectSeq(Get(args.dapr_yaml, "apps", <<>>),
              LAMBDA a : Get(a, "appId", "unknown") = id /\ Get(a, "appPort", 0) = p)

ReservedFindings(id, p) ==
    SelectSeq(results, LAMBDA r : r.message = "uses reserved port" /\ r.what = <<id, p>>)

\* C16: validate_port_conflicts emits a reserved-port finding for an app if
\* and only if its appPort is one of 3500, 50001, 9090, 8080, 8443: one
\* finding per such app, and none for an app whose appPort is another port,
\* whatever its sidecar ports (the defaults 3500 and 50001 included).
C16_ReservedPortIff ==
    Called("validate_port_conflicts") =>
        /\ pc = "returned"
        /\ \A id \in {"a", "b", "c", "unknown"} : \A p \in PortValues \cup {0} :
                Len(ReservedFindings(id, p))
                    = (IF p \in ClaimedReservedPorts THEN Len(AppsWith(id, p)) ELSE 0)
        /\ \A i \in 1..Len(results) :
                results[i].message = "uses reserved port" =>
                    results[i].what[2] \in ClaimedReservedPorts

\* Reached: a list with an app on the reserved port 8443, which is flagged,
\* and an app on port 8001 that leaves both sidecar ports at their defaults.
C16_Witness ==
    /\ program = "validate_port_conflicts" /\ pc = "returned"
    /\ ReservedFindings("a", 8443) # <<>>
    /\ \E i \in 1..Len(args.dapr_yaml.val["apps"]) :
            LET a == args.dapr_yaml.val["apps"][i]
            IN /\ Get(a, "appPort", 0) = 8001
               /\ ~Has(a, "daprHTTPPort") /\ ~Has(a, "daprGRPCPort")

\* The limits of the claim, per deployment target: cpu in tenths of a core,
\* memory in KiB.
ClaimedLimits(target) ==
    IF target = "kubernetes"
    THEN [cpu |-> 80, memory |-> 32 * 1024 * 1024, replicas |-> 1000]
    ELSE [cpu |-> 40, memory |-> 8 * 1024 * 1024, replicas |-> 300]

\* The memory quantities of the inputs: the number, the unit as written, and
\* the KiB in one unit (a plain number counts bytes: 1024 of them per KiB).
MemoryUnits ==
    {[text |-> <<"G", "i">>, kib |-> 1024 * 1024, per |-> 1],
     [text |-> <<"M", "i">>, kib |-> 1024, per |-> 1],
     [text |-> <<>>, kib |-> 1, per |-> 1024]}

MemoryNumbers == {8, 32, 33, 8192, 8193, 1073741824}

\* The KiB a memory string stands for.
KiBOf(text) ==
    LET q == CHOOSE q \in MemoryNumbers \X MemoryUnits : Text(q[1], q[2].text) = text
    IN (q[1] \div q[2].per) * q[2].kib

SelectedTarget == IF args.given = <<>> THEN "container-apps" ELSE args.given[1]

QuotaFindings(id, message) ==
    SelectSeq(results, LAMBDA r : r.message = message /\ r.what[1] = id)

QuotaApp(id, Exceeds(_)) ==
    SelectSeq(Get(args.dapr_yaml, "apps", <<>>),
              LAMBDA a : Get(a, "appId", "unknown") = id /\ Exceeds(a))

\* C17: for each app and the selected deployment target (container-apps
\* when none is given), validate_resource_quotas emits a cpu finding iff
\* cpu > cpu_max, a memory finding iff memory > memory_max, and a replicas
\* finding iff scale.maxReplicas > max_replicas: for every app id as many
\* findings of each kind as apps over that limit, so none for an app within
\* the limits or without resources and scale.
C17_QuotaFindingIffOverLimit ==
    Called("validate_resource_quotas") =>
        LET limits == ClaimedLimits(SelectedTarget)
        IN \A id \in {"a", "b", "unknown"} :
            /\ Len(QuotaFindings(id, "CPU exceeds platform limit"))
                = Len(QuotaApp(id, LAMBDA a :
                        /\ Has(a, "resources") /\ Has(a.val["resources"], "cpu")
                        /\ a.val["resources"].val["cpu"] > limits.cpu))
            /\ Len(QuotaFindings(id, "memory exceeds platform limit"))
                = Len(QuotaApp(id, LAMBDA a :
                        /\ Has(a, "resources") /\ Has(a.val["resources"], "memory")
                        /\ KiBOf(a.val["resources"].val["memory"]) > limits.memory))
            /\ Len(QuotaFindings(id, "maxReplicas exceeds platform limit"))
                = Len(QuotaApp(id, LAMBDA a :
                        /\ Has(a, "scale") /\ Has(a.val["scale"], "maxReplicas")
                        /\ a.val["scale"].val["maxReplicas"] > limits.replicas))

HasIssue(message) == \E i \in 1..Len(results) : results[i].message = message

\* The mtls map of the Configuration resource handed over.
GivenMtls == Get(Get(args.configuration[1], "spec", EmptyDict), "mtls", EmptyDict)

DurationUnits ==
    {[text |-> <<"h">>, ms |-> 3600000], [text |-> <<"H">>, ms |-> 3600000],
     [text |-> <<"m">>, ms |-> 60000], [text |-> <<"s">>, ms |-> 1000],
     [text |-> <<>>, ms |-> 1000], [text |-> <<"m", "s">>, ms |-> 1]}

DurationNumbers ==
    {0, 1, 2, 5, 15, 16, 24, 25, 48, 50, 99, 100, 200, 900, 901, 1440, 1441, 86400, 86401}

\* The milliseconds a duration string stands for.
MillisOf(text) ==
    LET q == CHOOSE q \in DurationNumbers \X DurationUnits : Text(q[1], q[2].text) = text
    IN q[1] * q[2].ms

\* C19: whenever a Configuration resource exists, validate_mtls_configuration
\* emits the workloadCertTTL warning iff the TTL is longer than 24h and the
\* allowedClockSkew warning iff the skew is longer than 15m (none at exactly
\* 24h / 15m or below, nor when the key is absent).
C19_TtlAndSkewWarnings ==
    (Called("validate_mtls_configuration") /\ args.configuration # <<>>) =>
        /\ HasIssue("workloadCertTTL is longer than recommended 24h")
            <=> (Has(GivenMtls, "workloadCertTTL")
                 /\ MillisOf(GivenMtls.val["workloadCertTTL"]) > 24 * 3600000)
        /\ HasIssue("allowedClockSkew may be too lenient")
            <=> (Has(GivenMtls, "allowedClockSkew")
                 /\ MillisOf(GivenMtls.val["allowedClockSkew"]) > 15 * 60000)

\* C20: for a retry policy validate_resiliency_policy emits the retry-storm
\* warning iff the policy has a duration shorter than 100 milliseconds, and
\* the excessive-retries warning iff maxRetries > 20.
C20_RetryWarnings ==
    (Called("validate_resiliency_policy") /\ args.policy_type = "retry") =>
        /\ HasIssue("Very short retry duration")
            <=> (Has(args.policy, "duration") /\ args.policy.val["duration"] # <<>>
                 /\ MillisOf(args.policy.val["duration"]) < 100)
        /\ HasIssue("Excessive maxRetries")
            <=> (Has(args.policy, "maxRetries") /\ args.policy.val["maxRetries"] > 20)

\* The component names in ascending order.
NamesAscending == <<"a", "b", "c", "d">>

\* fs lists its findings in ascending order of component name.
InNameOrder(fs) ==
    \A i \in 1..Len(fs) : \A j \in 1..Len(fs) :
        i < j => IndexOf(NamesAscending, fs[i].component) <= IndexOf(NamesAscending, fs[j].component)

\* The rules of the analyzer that report per component.
ComponentRules ==
    {"missing_secret_store", "secret_ref_check", "unknown_scope", "deep_dependency_chain"}

\* C22: within each rule the analyzer's findings appear in ascending order
\* of component name, whatever order the component files were loaded in.
C22_FindingsInNameOrder ==
    Analyzer =>
        \A t \in ComponentRules :
            InNameOrder(OfType(issues, t)) /\ InNameOrder(OfType(warnings, t))

\* The graph of the analyzer is built.
GraphBuilt == Analyzer /\ pc \notin {"start", "load_components", "build"}

\* The names the component registered as x references: the store of each
\* secretKeyRef of its file, and its auth.secretStore.
ReferencedBy(x) ==
    {StoreNameOf(r) : r \in Range(components.val[x].secret_refs)}
    \cup ({files[components.val[x].file_path].auth} \ {""})

\* The names the decoded document d references.
ReferencedIn(d) ==
    {StoreNameOf(d.metadata[i].secretKeyRef) :
        i \in {j \in 1..Len(d.metadata) : d.metadata[j].secretKeyRef # NoRef}}
    \cup ({d.auth} \ {""})

\* C24: every edge C -> S of the dependency graph (the analyzer's, and the
\* one detect_circular_dependencies builds) is justified: S is a known
\* component, S differs from C, and C references S by a secretKeyRef or by
\* auth.secretStore.
C24_EdgesAreJustified ==
    /\ GraphBuilt =>
            \A x \in NodeNames : \A y \in NodeNames :
                Edge(x, y) =>
                    /\ Has(components, x) /\ Has(components, y)
                    /\ y # x
                    /\ y \in ReferencedBy(x)
    /\ DetectionRanV =>
            \A x \in NodeNames : \A y \in NodeNames :
                EdgeV(x, y) =>
                    /\ y \in ComponentNames(Decoded(files))
                    /\ y # x
                    /\ \E i \in 1..Len(Decoded(files)) :
                            Decoded(files)[i].name = x /\ y \in ReferencedIn(Decoded(files)[i])

\* C25: for every component C and every known component S other than C that
\* C references (secretKeyRef or auth.secretStore), the graph has the edge
\* C -> S; for validators.py, on components whose name no other file has.
C25_ReferencesBecomeEdges ==
    /\ GraphBuilt =>
            \A x \in Range(components.keys) : \A y \in Range(components.keys) :
                (y # x /\ y \in ReferencedBy(x)) => Edge(x, y)
    /\ DetectionRanV =>
            \A i \in 1..Len(Decoded(files)) :
                LET d == Decoded(files)[i] IN
                (d.name # "" /\ \A j \in 1..Len(Decoded(files)) :
                                    Decoded(files)[j].name = d.name => j = i) =>
                    \A y \in ComponentNames(Decoded(files)) :
                        (y # d.name /\ y \in ReferencedIn(d)) => EdgeV(d.name, y)

\* C26: once loading has finished no step of the analyzer changes a
\* Component or App record, and once the graph is built no step changes its
\* nodes, edges or reverse edges.
C26_NoStageWritesBack ==
    [][/\ (Analyzer /\ pc \notin {"start", "load_components"}) =>
                components' = components /\ apps' = apps
       /\ GraphBuilt => graph' = graph]_vars

\* The files under components/, at any depth.
UnderComponents == {p \in 1..Len(files) : files[p].dir \in {"components", "components/sub"}}

\* C28: find_config_files lists each YAML file under components/ exactly
\* once, so main validates it once and each of its findings is in the report
\* (and in the counts of errors and warnings) once.
C28_EachFileOnce ==
    (program = "validate-config" /\ Exited) =>
        \A p \in UnderComponents :
            /\ Count(find_config_files(files), LAMBDA q : q = p) = 1
            /\ files[p].yaml_ok =>
                    SelectSeq(ComponentFindings, LAMBDA e : e.file = p)
                        = validate_component(p, files[p])

\* Every secretKeyRef of the component names an existing secret store.
Resolvable(refs, stores) == refs # {} /\ refs \subseteq stores

\* C30: a component all of whose secretKeyRef names are names of existing
\* secret-store components gets no issue and no warning from the validation
\* of secret references (the analyzer's rule and validate_secret_references).
C30_ResolvableRefsNoFindings ==
    /\ Returned(AfterSecrets) =>
            \A c \in Range(components.keys) :
                Resolvable(Range(components.val[c].secret_refs),
                           Range(SecretStoreNames(components))) =>
                    /\ ~\E i \in 1..Len(issues) :
                            issues[i].type = "missing_secret_store" /\ issues[i].component = c
                    /\ ~\E i \in 1..Len(warnings) :
                            warnings[i].type = "secret_ref_check" /\ warnings[i].component = c
    /\ (Validators /\ pc \in {"v_scopes", "returned"}) =>
            \A i \in 1..Len(Decoded(files)) :
                LET d == Decoded(files)[i] IN
                (/\ d.name # ""
                 /\ \A j \in 1..Len(Decoded(files)) : Decoded(files)[j].name = d.name => j = i
                 /\ Resolvable(Range(SecretRefsOf(d.metadata)),
                               SecretStoreNameSet(Decoded(files)))) =>
                    ~\E k \in 1..Len(results.secret_refs) :
                        /\ results.secret_refs[k].component = VName(d)
                        /\ results.secret_refs[k].field # "auth.secretStore"

\* The list of apps handed to validate_port_conflicts.
GivenApps == Get(args.dapr_yaml, "apps", <<>>)

Reversed(s) == [i \in 1..Len(s) |-> s[Len(s) + 1 - i]]

\* What the findings of one message say, as a set.
Said(rs, message) == {rs[i].what : i \in {j \in 1..Len(rs) : rs[j].message = message}}

\* The shared ports reported, each with the set of apps named.
SharedPortsSaid(rs) ==
    {<<w[1], Range(Tail(w))>> : w \in Said(rs, "used by multiple apps")}

\* C29: the set of findings of validate_port_conflicts is the same for the
\* list of apps and for the same apps listed in the opposite order; a
\* sidecar port (daprHTTPPort, daprGRPCPort) set to the appPort of another
\* app is reported whichever app is listed first, and an app is not
\* reported as conflicting with its own appPort.
C29_PortFindingsIgnoreOrder ==
    Called("validate_port_conflicts") =>
        LET other == validate_port_conflicts(Apps(Reversed(GivenApps)))
            conflicts == Said(results, "conflicts with another app's port")
        IN /\ Said(results, "uses reserved port") = Said(other, "uses reserved port")
           /\ SharedPortsSaid(results) = SharedPortsSaid(other)
           /\ conflicts = Said(other, "conflicts with another app's port")
           /\ \A i \in 1..Len(GivenApps) : \A t \in {"daprHTTPPort", "daprGRPCPort"} :
                    (/\ Has(GivenApps[i], t)
                     /\ \E j \in 1..Len(GivenApps) :
                            j # i /\ Get(GivenApps[j], "appPort", 0) = GivenApps[i].val[t]) =>
                        <<Get(GivenApps[i], "appId", "unknown"), t, GivenApps[i].val[t]>>
                            \in conflicts
           /\ \A w \in conflicts :
                    \E i \in 1..Len(GivenApps) : \E j \in 1..Len(GivenApps) :
                        /\ j # i
                        /\ Get(GivenApps[i], "appId", "unknown") = w[1]
                        /\ Has(GivenApps[i], w[2]) /\ GivenApps[i].val[w[2]] = w[3]
                        /\ Get(GivenApps[j], "appPort", 0) = w[3]

\* The entries of the metadata handed over that set the rate limit.
RateLimitEntries ==
    SelectSeq(args.metadata, LAMBDA e : Get(e, "name", "") = "maxRequestsPerSecond")

\* The value is an integer: an int, or a str that spells one.
IsInteger(v) == v.kind = "int" \/ (v.kind = "str" /\ IsSignedDigits(v.text))

IntegerOf(v) == IF v.kind = "int" THEN v.n ELSE SignedIntOf(v.text)

\* C21: for metadata with one maxRequestsPerSecond entry that has a value,
\* rate-limit validation (validate_rate_limit of validators.py and of
\* test_middleware_validation.py) returns a finding when the value is not
\* an integer, is <= 0 or is > 10000, and no finding when it is an integer
\* in 1..10000.
C21_RateLimitFindings ==
    \A fn \in {"validate_rate_limit", "test_middleware_validate_rate_limit"} :
        (Called(fn) /\ Len(RateLimitEntries) = 1 /\ Has(RateLimitEntries[1], "value")) =>
            LET v == RateLimitEntries[1].val["value"]
            IN /\ pc = "returned"
               /\ (results # <<>>) <=>
                    (~IsInteger(v) \/ IntegerOf(v) <= 0 \/ IntegerOf(v) > 10000)

\* The acyclic dependency paths of the analyzer's graph: no node twice, and
\* every step an edge.
AcyclicPaths ==
    {p \in SeqsUpTo(NodeNames, Cardinality(NodeNames)) :
        /\ p # <<>>
        /\ \A i \in 1..Len(p) : \A j \in 1..Len(p) : p[i] = p[j] => i = j
        /\ \A i \in 1..(Len(p) - 1) : Edge(p[i], p[i + 1])}

\* The chain depth of c: the number of nodes of the longest acyclic path
\* that starts at c.
ChainDepth(c) == Max({Len(p) : p \in {q \in AcyclicPaths : q[1] = c}})

DeepChainWarnings(c) ==
    SelectSeq(warnings, LAMBDA f : f.type = "deep_dependency_chain" /\ f.component = c)

\* C27: when the analysis of a project has ended, the warnings hold exactly
\* one deep_dependency_chain warning for each component whose chain depth
\* (the length of the longest acyclic dependency path from it) exceeds 3,
\* carrying that depth, and none for the other components.
C27_DeepChainWarnings ==
    (Analyzer /\ Exited) =>
        \A c \in Range(graph.nodes.keys) :
            IF ChainDepth(c) > 3
            THEN DeepChainWarnings(c)
                    = <<Finding("deep_dependency_chain", "", c, <<ChainDepth(c)>>)>>
            ELSE DeepChainWarnings(c) = <<>>

\* C23: every run of the walk to the configuration root, of the cycle
\* detection and of the chain-depth analysis comes to its end, on every
\* start directory and every project graph, those with cycles and
\* self-loops included.
C23_AnalysisTerminates == <>(pc = "done")

\* Reached: the cycle detection has ended on a graph with a self-loop and a
\* cycle through two nodes, and has reported a cycle.
C23_Witness ==
    /\ program = "_detect_circular_dependencies"
    /\ pc = "done"
    /\ Edge("a", "a") /\ Edge("a", "b") /\ Edge("b", "a")
    /\ results.cycles # <<>>

====
